---- MODULE Spec2Model ----
(***************************************************************************)
(* The question-answering endpoint of askuenr (src/askuenr/views.py): the  *)
(* question classifier, the three JSON retrieval strategies, the Gemini    *)
(* fallback client, and the POST handler with its conversation log.        *)
(*                                                                         *)
(* A Python str that the code inspects (a question, a staff name) is a     *)
(* sequence of one-character strings, so that substring tests, regular     *)
(* expressions, lower() and title() are computed character by character.   *)
(***************************************************************************)
EXTENDS Naturals, Integers, Sequences, FiniteSets, TLC

\* ------------------------------------------------------------------------
\* The state of the process and of its surroundings
\* ------------------------------------------------------------------------
VARIABLES
    files,      \* path -> "ok" | "missing" | "malformed"
    loads,      \* path -> number of times the file was read
    table,      \* the ChatConversation rows, in insertion order
    uuids,      \* number of identifiers uuid4 has generated
    req         \* request -> its handler: position, locals, response, and
                \* a record of what it has done

\* ------------------------------------------------------------------------
\* Characters and str methods
\* ------------------------------------------------------------------------
LowerLetters == <<"a","b","c","d","e","f","g","h","i","j","k","l","m",
                  "n","o","p","q","r","s","t","u","v","w","x","y","z">>
UpperLetters == <<"A","B","C","D","E","F","G","H","I","J","K","L","M",
                  "N","O","P","Q","R","S","T","U","V","W","X","Y","Z">>
LowerSet == { LowerLetters[i] : i \in 1..Len(LowerLetters) }
UpperSet == { UpperLetters[i] : i \in 1..Len(UpperLetters) }
DigitSet == {"0","1","2","3","4","5","6","7","8","9"}
SpaceSet == {" ", "\t", "\n", "\r"}

ToLowerMap ==
    [c \in UpperSet |->
        LowerLetters[CHOOSE i \in 1..Len(UpperLetters) : UpperLetters[i] = c]]
ToUpperMap ==
    [c \in LowerSet |->
        UpperLetters[CHOOSE i \in 1..Len(LowerLetters) : LowerLetters[i] = c]]

IsAlpha(c) == c \in LowerSet \/ c \in UpperSet
IsSpace(c) == c \in SpaceSet
\* \w of the re module: letters, digits and the underscore
IsWordChar(c) == IsAlpha(c) \/ c \in DigitSet \/ c = "_"

LowerChar(c) == IF c \in UpperSet THEN ToLowerMap[c] ELSE c
UpperChar(c) == IF c \in LowerSet THEN ToUpperMap[c] ELSE c

\* str.lower()
lower(s) == [i \in 1..Len(s) |-> LowerChar(s[i])]

\* str.title(): a letter that follows a letter is lower-cased, any other
\* letter is upper-cased
title(s) ==
    [i \in 1..Len(s) |->
        IF IsAlpha(s[i])
        THEN IF i > 1 /\ IsAlpha(s[i-1]) THEN LowerChar(s[i]) ELSE UpperChar(s[i])
        ELSE s[i]]

\* the Python test `needle in hay` on two str
In(needle, hay) ==
    \E i \in 0..(Len(hay) - Len(needle)) :
        SubSeq(hay, i + 1, i + Len(needle)) = needle

\* the Python test `item in list`
InList(item, list) == \E i \in 1..Len(list) : list[i] = item

\* any(word in text for word in words)
AnyIn(words, text) == \E i \in 1..Len(words) : In(words[i], text)

\* Python's None where a str is expected: no str equals it, since every
\* element of a str is a single character
None == <<"None">>

\* sep.join(parts) for a list of str
RECURSIVE Join(_, _)
Join(sep, parts) ==
    IF Len(parts) = 0 THEN <<>>
    ELSE IF Len(parts) = 1 THEN parts[1]
    ELSE parts[1] \o sep \o Join(sep, Tail(parts))

\* the last index of the run of characters satisfying Test that starts at
\* index i (i - 1 when s[i] does not satisfy it): a greedy x+ or \s+
RunEnd(s, i, Test(_)) ==
    IF \E j \in i..Len(s) : ~Test(s[j])
    THEN (CHOOSE j \in i..Len(s) :
              ~Test(s[j]) /\ \A k \in i..(j-1) : Test(s[k])) - 1
    ELSE Len(s)

SetMin(S) == CHOOSE x \in S : \A y \in S : x <= y

\* ------------------------------------------------------------------------
\* _understand_question
\* ------------------------------------------------------------------------
person_keywords ==
    << <<"w","h","o">>,
       <<"p","r","o","f">>,
       <<"d","r">>,
       <<"m","r">>,
       <<"m","r","s">>,
       <<"m","s">>,
       <<"d","i","r","e","c","t","o","r">>,
       <<"d","e","a","n">>,
       <<"h","e","a","d">>,
       <<"v","c">>,
       <<"v","i","c","e","-","c","h","a","n","c","e","l","l","o","r">> >>
\* the alternatives of the first name pattern, in the pattern's order
name_titles ==
    << <<"p","r","o","f">>,
       <<"d","r">>,
       <<"m","r">>,
       <<"m","r","s">>,
       <<"m","s">> >>
department_words ==
    << <<"d","e","p","a","r","t","m","e","n","t">>,
       <<"s","c","h","o","o","l">>,
       <<"f","a","c","u","l","t","y">> >>
academic_words ==
    << <<"c","o","u","r","s","e">>,
       <<"p","r","o","g","r","a","m">>,
       <<"d","e","g","r","e","e">>,
       <<"s","t","u","d","y">>,
       <<"b","s","c">>,
       <<"d","i","p","l","o","m","a">> >>
admission_words ==
    << <<"a","d","m","i","s","s","i","o","n">>,
       <<"a","p","p","l","y">>,
       <<"r","e","q","u","i","r","e","m","e","n","t">> >>
grading_words ==
    << <<"g","r","a","d","e">>,
       <<"g","p","a">>,
       <<"s","c","o","r","e">>,
       <<"m","a","r","k">> >>
financial_words ==
    << <<"f","e","e">>,
       <<"c","o","s","t">>,
       <<"p","a","y","m","e","n","t">>,
       <<"t","u","i","t","i","o","n">> >>
registration_words ==
    << <<"r","e","g","i","s","t","e","r">>,
       <<"r","e","g","i","s","t","r","a","t","i","o","n">> >>
facility_words ==
    << <<"l","i","b","r","a","r","y">>,
       <<"h","o","s","t","e","l">>,
       <<"c","a","m","p","u","s">>,
       <<"f","a","c","i","l","i","t","y">> >>

s_it == <<"i","t">>
s_information_technology ==
    <<"i","n","f","o","r","m","a","t","i","o","n"," ",
      "t","e","c","h","n","o","l","o","g","y">>
s_computer_science ==
    <<"c","o","m","p","u","t","e","r"," ","s","c","i","e","n","c","e">>
s_engineering == <<"e","n","g","i","n","e","e","r","i","n","g">>
s_science == <<"s","c","i","e","n","c","e">>
s_sciences == <<"s","c","i","e","n","c","e","s">>
s_vice_chancellor ==
    <<"v","i","c","e","-","c","h","a","n","c","e","l","l","o","r">>
s_vc == <<"v","c">>
s_head == <<"h","e","a","d">>
s_hod == <<"h","o","d">>
s_department == <<"d","e","p","a","r","t","m","e","n","t">>
s_dean == <<"d","e","a","n">>
s_course == <<"c","o","u","r","s","e">>
s_program == <<"p","r","o","g","r","a","m">>
s_uenr == <<"u","e","n","r">>
s_university == <<"u","n","i","v","e","r","s","i","t","y">>
s_location == <<"l","o","c","a","t","i","o","n">>
s_campus == <<"c","a","m","p","u","s">>
role_vice_chancellor ==
    <<"V","i","c","e","-","C","h","a","n","c","e","l","l","o","r">>
role_head_of_department ==
    <<"H","e","a","d"," ","o","f"," ","D","e","p","a","r","t","m","e","n","t">>
role_dean == <<"D","e","a","n">>

\* re.findall(r'\b[a-z]{3,}\b', q_lower): the maximal runs of word
\* characters that are lower-case letters only and at least 3 long, in order
\* of appearance, duplicates kept
Keywords(s) ==
    LET starts == { i \in 1..Len(s) :
                      IsWordChar(s[i]) /\ (i = 1 \/ ~IsWordChar(s[i-1])) }
        Word(i) == SubSeq(s, i, RunEnd(s, i, IsWordChar))
        found  == { i \in starts :
                      /\ Len(Word(i)) >= 3
                      /\ \A k \in 1..Len(Word(i)) : Word(i)[k] \in LowerSet }
        Nth(k) == CHOOSE i \in found : Cardinality({ j \in found : j < i }) = k - 1
    IN [k \in 1..Cardinality(found) |-> Word(Nth(k))]

\* r"(prof\.?|dr\.?|mr\.?|mrs\.?|ms\.?)\s+([a-z]+)\s+([a-z]+)" under
\* re.IGNORECASE, tried at index p with alternative a: the three groups, or
\* <<>> when it does not match there
TitlePatternAt(s, p, a) ==
    LET t  == name_titles[a]
        e0 == p + Len(t) - 1
        \* e1: the end of the title; w1, w2: of the runs of spaces; g2, g3:
        \* of the runs of letters
        Groups(e1, w1, g2, w2, g3) ==
            IF w1 > e1 /\ g2 > w1 /\ w2 > g2 /\ g3 > w2
            THEN << SubSeq(s, p, e1), SubSeq(s, w1 + 1, g2), SubSeq(s, w2 + 1, g3) >>
            ELSE <<>>
        Third(e1, w1, g2, w2) == Groups(e1, w1, g2, w2, RunEnd(s, w2 + 1, IsAlpha))
        Gap(e1, w1, g2)       == Third(e1, w1, g2, RunEnd(s, g2 + 1, IsSpace))
        Second(e1, w1)        == Gap(e1, w1, RunEnd(s, w1 + 1, IsAlpha))
        Spaces(e1)            == Second(e1, RunEnd(s, e1 + 1, IsSpace))
    IN IF e0 <= Len(s) /\ lower(SubSeq(s, p, e0)) = t
       THEN Spaces(IF e0 + 1 <= Len(s) /\ s[e0 + 1] = "." THEN e0 + 1 ELSE e0)
       ELSE <<>>

\* the second name pattern matched without re.IGNORECASE: a capital letter
\* and lower-case letters, twice
CapitalPatternAt_case_sensitive(s, p) ==
    LET IsLowerLetter(c) == c \in LowerSet
        Groups(g1, w, g2) ==
            IF /\ s[p] \in UpperSet /\ g1 >= p + 1 /\ w > g1
               /\ w + 1 <= Len(s) /\ s[w + 1] \in UpperSet /\ g2 >= w + 2
            THEN << SubSeq(s, p, g1), SubSeq(s, w + 1, g2) >>
            ELSE <<>>
        Second(g1, w) == Groups(g1, w, RunEnd(s, w + 2, IsLowerLetter))
        Spaces(g1)    == Second(g1, RunEnd(s, g1 + 1, IsSpace))
    IN Spaces(RunEnd(s, p + 1, IsLowerLetter))

\* r"([A-Z][a-z]+)\s+([A-Z][a-z]+)" under re.IGNORECASE, tried at index p:
\* with the flag both classes match a letter of either case
CapitalPatternAt(s, p) ==
    LET Groups(g1, w, g2) ==
            IF g1 >= p + 1 /\ w > g1 /\ g2 >= w + 2
            THEN << SubSeq(s, p, g1), SubSeq(s, w + 1, g2) >>
            ELSE <<>>
        Second(g1, w) == Groups(g1, w, RunEnd(s, w + 1, IsAlpha))
        Spaces(g1)    == Second(g1, RunEnd(s, g1 + 1, IsSpace))
    IN Spaces(RunEnd(s, p, IsAlpha))

\* the first element of re.findall(pattern, question, re.IGNORECASE), or
\* <<>> when the list is empty: the leftmost match, by the first
\* alternative that matches there
TitlePatternFirst(s) ==
    LET n == Len(name_titles)
        At(k) == TitlePatternAt(s, (k \div n) + 1, (k % n) + 1)
        First(hits) == IF hits = {} THEN <<>> ELSE At(SetMin(hits))
    IN First({ k \in 0..(Len(s) * n - 1) : At(k) # <<>> })

CapitalPatternFirst(s) ==
    LET First(hits) ==
            IF hits = {} THEN <<>> ELSE CapitalPatternAt(s, SetMin(hits))
    IN First({ p \in 1..Len(s) : CapitalPatternAt(s, p) # <<>> })

\* the loop over name_patterns: the inner break leaves only the loop over
\* one pattern's matches, so the second pattern is tried after the first and
\* its first match replaces the first pattern's
ExtractName(question) ==
    LET After(match, before) ==
            IF match # <<>> THEN title(Join(<<" ">>, match)) ELSE before
    IN After(CapitalPatternFirst(question),
             After(TitlePatternFirst(question), None))

\* the role labels, used when no name was extracted
InferRole(q_lower) ==
    IF In(s_vice_chancellor, q_lower) \/ In(s_vc, q_lower)
    THEN role_vice_chancellor
    ELSE IF In(s_head, q_lower) /\ In(s_department, q_lower)
    THEN role_head_of_department
    ELSE IF In(s_dean, q_lower)
    THEN role_dean
    ELSE None

\* the chain of rules with the department rule tried before the person rule
classified_department_first(question, q_lower, analysis, it) ==
    LET Person(name, role) == IF name # None /\ name # <<>> THEN name ELSE role
    IN  IF AnyIn(department_words, q_lower)
        THEN [analysis EXCEPT
                !.type = "department_query",
                !.target_department =
                    IF it THEN s_it
                    ELSE IF In(s_computer_science, q_lower) THEN s_computer_science
                    ELSE IF In(s_engineering, q_lower) THEN s_engineering
                    ELSE IF In(s_science, q_lower) THEN s_sciences
                    ELSE None]
        ELSE IF AnyIn(person_keywords, q_lower)
        THEN [analysis EXCEPT
                !.type = "person_query",
                !.target_person =
                    Person(ExtractName(question), InferRole(q_lower))]
        ELSE IF AnyIn(academic_words, q_lower)
        THEN [analysis EXCEPT
                !.type = "academic_query",
                !.target_program =
                    IF it THEN s_information_technology
                    ELSE IF In(s_computer_science, q_lower) THEN s_computer_science
                    ELSE IF In(s_engineering, q_lower) THEN s_engineering
                    ELSE None]
        ELSE IF AnyIn(admission_words, q_lower)
        THEN [analysis EXCEPT !.type = "admission_query"]
        ELSE IF AnyIn(grading_words, q_lower)
        THEN [analysis EXCEPT !.type = "grading_query"]
        ELSE IF AnyIn(financial_words, q_lower)
        THEN [analysis EXCEPT !.type = "financial_query"]
        ELSE IF AnyIn(registration_words, q_lower)
        THEN [analysis EXCEPT !.type = "registration_query"]
        ELSE IF AnyIn(facility_words, q_lower)
        THEN [analysis EXCEPT !.type = "facility_query"]
        ELSE analysis

\* lines 82-144: the chain of rules on the lower-cased question, applied to
\* the analysis that lines 68-80 have initialised
classified(question, q_lower, analysis, it) ==
    LET Person(name, role) == IF name # None /\ name # <<>> THEN name ELSE role
    IN  IF AnyIn(person_keywords, q_lower)
        THEN [analysis EXCEPT
                !.type = "person_query",
                !.target_person =
                    Person(ExtractName(question), InferRole(q_lower))]
        ELSE IF AnyIn(department_words, q_lower)
        THEN [analysis EXCEPT
                !.type = "department_query",
                !.target_department =
                    IF it THEN s_it
                    ELSE IF In(s_computer_science, q_lower) THEN s_computer_science
                    ELSE IF In(s_engineering, q_lower) THEN s_engineering
                    ELSE IF In(s_science, q_lower) THEN s_sciences
                    ELSE None]
        ELSE IF AnyIn(academic_words, q_lower)
        THEN [analysis EXCEPT
                !.type = "academic_query",
                !.target_program =
                    IF it THEN s_information_technology
                    ELSE IF In(s_computer_science, q_lower) THEN s_computer_science
                    ELSE IF In(s_engineering, q_lower) THEN s_engineering
                    ELSE None]
        ELSE IF AnyIn(admission_words, q_lower)
        THEN [analysis EXCEPT !.type = "admission_query"]
        ELSE IF AnyIn(grading_words, q_lower)
        THEN [analysis EXCEPT !.type = "grading_query"]
        ELSE IF AnyIn(financial_words, q_lower)
        THEN [analysis EXCEPT !.type = "financial_query"]
        ELSE IF AnyIn(registration_words, q_lower)
        THEN [analysis EXCEPT !.type = "registration_query"]
        ELSE IF AnyIn(facility_words, q_lower)
        THEN [analysis EXCEPT !.type = "facility_query"]
        ELSE analysis

\* a classifier whose analysis is not initialised anew on each call: once
\* the process has loaded a document, a question that matches no rule keeps
\* a type left by an earlier call
understand_question_remembering(question) ==
    classified(
        question,
        lower(question),
        [ type              |-> IF \A p \in DOMAIN loads : loads[p] = 0
                                THEN "general" ELSE "facility_query",
          target_person     |-> None,
          target_department |-> None,
          target_program    |-> None,
          target_topic      |-> None,
          keywords          |-> Keywords(lower(question)),
          is_uenr_related   |-> TRUE ],
        In(s_it, lower(question))
            \/ In(s_information_technology, lower(question)))

\* the values "type" is given at lines 69 and 85-144
QUERY_TYPES ==
    { "general", "person_query", "department_query", "academic_query",
      "admission_query", "grading_query", "financial_query",
      "registration_query", "facility_query" }

\* the classifier looking for "it" as a word of its own
understand_question_matching_whole_words(question) ==
    LET HasWordIt(s) ==
            \E i \in 1..(Len(s) - 1) :
                /\ SubSeq(s, i, i + 1) = s_it
                /\ i = 1 \/ ~IsWordChar(s[i - 1])
                /\ i + 2 > Len(s) \/ ~IsWordChar(s[i + 2])
    IN classified(question, lower(question),
           [ type |-> "general", target_person |-> None, target_department |-> None,
             target_program |-> None, target_topic |-> None,
             keywords |-> Keywords(lower(question)), is_uenr_related |-> TRUE ],
           HasWordIt(lower(question)) \/ In(s_information_technology, lower(question)))

understand_question(question) ==
    classified(
        question,
        lower(question),
        [ type              |-> "general",
          target_person     |-> None,
          target_department |-> None,
          target_program    |-> None,
          target_topic      |-> None,
          keywords          |-> Keywords(lower(question)),
          is_uenr_related   |-> TRUE ],
        In(s_it, lower(question))
            \/ In(s_information_technology, lower(question)))

\* ------------------------------------------------------------------------
\* Text that the code builds and stores but does not inspect (answers,
\* prompts): a sequence of pieces, each piece the characters lo..hi of the
\* text t.  A literal of the code and a value of a document are whole
\* pieces; a reply of the external API is a piece of its body, so that
\* len(), strip() and slicing are computed on it.
\* ------------------------------------------------------------------------
\* "".join(s) for a sequence of characters, by halves
RECURSIVE Concat(_)
Concat(s) ==
    IF Len(s) = 0 THEN ""
    ELSE IF Len(s) = 1 THEN s[1]
    ELSE Concat(SubSeq(s, 1, Len(s) \div 2))
         \o Concat(SubSeq(s, Len(s) \div 2 + 1, Len(s)))

Lit(s) == [t |-> s, lo |-> 1, hi |-> Len(s)]
\* a str value (a sequence of characters) as one piece
Str(v) == Lit(Concat(v))
\* str(n) for a number n
Num(n) == Lit(ToString(n))

\* an optional value: <<>> is Python's None, <<x>> is x
NoneOpt == <<>>
Some(x) == <<x>>

\* the text built by a strategy, or None when nothing was built
Opt(response) == IF response # <<>> THEN Some(response) ELSE NoneOpt

\* dict.get(k) inside an f-string: the value, or the text "None"
Fmt(d, k) == IF k \in DOMAIN d THEN Str(d[k]) ELSE Lit("None")
\* dict.get(k, "")
GetStr(d, k) == IF k \in DOMAIN d THEN d[k] ELSE <<>>
\* the truth value of dict.get(k) for a str, list or dict value
Truthy(d, k) == k \in DOMAIN d /\ DOMAIN d[k] # {}
\* the truth value of an optional str, list or dict
Falsy(opt) == Len(opt) = 0 \/ DOMAIN opt[1] = {}

\* list[:n]
Take(list, n) == SubSeq(list, 1, IF Len(list) < n THEN Len(list) ELSE n)

\* sep.join(items), each item a text
RECURSIVE JoinText(_, _)
JoinText(sep, items) ==
    IF Len(items) = 0 THEN <<>>
    ELSE IF Len(items) = 1 THEN items[1]
    ELSE items[1] \o <<sep>> \o JoinText(sep, Tail(items))

\* str.replace('_', ' ')
ReplaceUnderscore(s) == [i \in 1..Len(s) |-> IF s[i] = "_" THEN " " ELSE s[i]]

\* ------------------------------------------------------------------------
\* The three JSON documents (src/askuenr/data is not part of the sources:
\* these are example documents with the field layout the code reads)
\* ------------------------------------------------------------------------
STAFF_JSON_PATH == "staffs.json"
GUIDE_JSON_PATH == "uenr_academic_and_student_guide.json"
IT_DEPT_JSON_PATH == "it_department_info.json"
Paths == {STAFF_JSON_PATH, GUIDE_JSON_PATH, IT_DEPT_JSON_PATH}

StaffDocument ==
    << [ name             |-> <<"K","o","f","i"," ","M","e","n","s","a","h">>,
         current_position |-> <<"D","e","a","n">>,
         department       |-> <<"S","c","h","o","o","l"," ","o","f"," ","S","c","i","e","n","c","e","s">>,
         achievements     |-> << <<"A","w","a","r","d">>, <<"G","r","a","n","t">> >> ]
       @@ ("Education & Qualifications" :> <<"P","h","D">>),
       [ name             |-> <<"A","m","a"," ","M","e","n","s","a","h">>,
         current_position |-> <<"L","e","c","t","u","r","e","r">>,
         role             |-> <<"t","e","a","c","h","i","n","g">>,
         department       |-> <<"I","n","f","o","r","m","a","t","i","o","n"," ","T","e","c","h","n","o","l","o","g","y">> ]
       @@ ("Education & Qualifications" :> <<"u","n","k","n","o","w","n">>) >>

ItDeptDocument ==
    [ department |->
        [ name     |-> <<"D","e","p","a","r","t","m","e","n","t"," ","o","f"," ","I","T">>,
          school   |-> <<"S","c","h","o","o","l"," ","o","f"," ","S","c","i","e","n","c","e","s">>,
          location |-> <<"S","u","n","y","a","n","i">>,
          head_of_department |->
              [ name     |-> <<"E","s","i"," ","O","w","u","s","u">>,
                position |-> <<"S","e","n","i","o","r"," ","L","e","c","t","u","r","e","r">>,
                school   |-> <<"S","c","h","o","o","l"," ","o","f"," ","S","c","i","e","n","c","e","s">> ],
          staff |->
              << [ name |-> <<"E","s","i"," ","O","w","u","s","u">>, position |-> <<"S","e","n","i","o","r"," ","L","e","c","t","u","r","e","r">> ],
                 [ name |-> <<"Y","a","w"," ","D","a","r","k","o">>, position |-> <<"L","e","c","t","u","r","e","r">> ] >>,
          courses_offered |->
              << <<"N","e","t","w","o","r","k","s">>, <<"D","a","t","a","b","a","s","e","s">>, <<"P","r","o","g","r","a","m","m","i","n","g">>,
                 <<"S","e","c","u","r","i","t","y">>, <<"W","e","b">>, <<"S","y","s","t","e","m","s">>, <<"A","l","g","e","b","r","a">> >>,
          programs |->
              << [ degree |-> <<"B","S","c">>, name |-> <<"I","n","f","o","r","m","a","t","i","o","n"," ","T","e","c","h","n","o","l","o","g","y">>,
                   mode |-> <<"R","e","g","u","l","a","r">> ] >> ] ]

\* a JSON object whose key order matters is a sequence of key/value pairs
GuideDocument ==
    [ Programmes_Offered |->
        << [ key |-> <<"S","c","h","o","o","l","_","o","f","_","S","c","i","e","n","c","e","s">>,
             value |-> << <<"B","S","c"," ","I","n","f","o","r","m","a","t","i","o","n"," ","T","e","c","h","n","o","l","o","g","y">>,
                          <<"B","S","c"," ","C","o","m","p","u","t","e","r"," ","S","c","i","e","n","c","e">> >> ],
           [ key |-> <<"S","c","h","o","o","l","_","o","f","_","E","n","g","i","n","e","e","r","i","n","g">>,
             value |-> << <<"B","S","c"," ","M","e","c","h","a","n","i","c","a","l"," ","E","n","g","i","n","e","e","r","i","n","g">> >> ] >>,
      Grading_System |->
        [ Grades |->
            << [ Grade |-> <<"A">>, Mark |-> <<"8","0","-","1","0","0">>, Interpretation |-> <<"E","x","c","e","l","l","e","n","t">> ],
               [ Grade |-> <<"B">>, Mark |-> <<"7","0","-","7","9">>, Interpretation |-> <<"V","e","r","y"," ","G","o","o","d">> ],
               [ Grade |-> <<"C">>, Mark |-> <<"6","0","-","6","9">>, Interpretation |-> <<"G","o","o","d">> ],
               [ Grade |-> <<"D">>, Mark |-> <<"5","0","-","5","9">>, Interpretation |-> <<"P","a","s","s">> ] >> ],
      Course_Registration |->
        [ Steps_to_Register |->
            << <<"L","o","g"," ","i","n",".">>, <<"P","i","c","k"," ","c","o","u","r","s","e","s",".">>, <<"S","u","b","m","i","t",".">> >> ],
      About |->
        [ Overview |-> <<"U","E","N","R"," ","i","s"," ","a"," ","p","u","b","l","i","c"," ","u","n","i","v","e","r","s","i","t","y",".">>,
          Vision   |-> <<"T","o"," ","l","e","a","d",".">>,
          Mission  |-> <<"T","o"," ","t","r","a","i","n",".">> ],
      Location |->
        [ Main_Campus |-> <<"S","u","n","y","a","n","i">>,
          Satellite_Campuses |-> << <<"N","s","o","a","t","r","e">>, <<"D","o","r","m","a","a">> >> ] ]

\* json.load of the file at path, when it can be read and parsed
ParsedFile(path) ==
    IF path = STAFF_JSON_PATH THEN StaffDocument
    ELSE IF path = GUIDE_JSON_PATH THEN GuideDocument
    ELSE ItDeptDocument

\* json.load of a file that can be read and parsed and holds a part of the
\* document only: a guide with the Location section and no other
PartialFile(path) ==
    IF path = GUIDE_JSON_PATH THEN [ Location |-> GuideDocument["Location"] ]
    ELSE ParsedFile(path)

\* ------------------------------------------------------------------------
\* _search_staff_info, _format_staff_response
\* ------------------------------------------------------------------------
s_unknown == <<"u","n","k","n","o","w","n">>

format_staff_response(staff) ==
    IF DOMAIN staff = {} THEN NoneOpt
    ELSE
    LET EQ == "Education & Qualifications"
        CW == "Career / Work Experience / Research Interests"
        head == << Fmt(staff, "name"), Lit(" is the "),
                   Fmt(staff, "current_position"), Lit(" at UENR. ") >>
        role == IF Truthy(staff, "role")
                THEN << Lit("Their role involves "), Str(staff["role"]), Lit(". ") >>
                ELSE <<>>
        dept == IF Truthy(staff, "department")
                THEN << Lit("They work in the "), Str(staff["department"]), Lit(". ") >>
                ELSE <<>>
        qual == IF Truthy(staff, EQ) /\ staff[EQ] # s_unknown
                THEN << Lit("Qualifications: "), Str(staff[EQ]), Lit(". ") >>
                ELSE <<>>
        expe == IF Truthy(staff, CW) /\ staff[CW] # s_unknown
                THEN << Lit("Expertise: "), Str(staff[CW]), Lit(". ") >>
                ELSE <<>>
        achi == IF Truthy(staff, "achievements")
                THEN LET achievements == staff["achievements"]
                     IN << Lit("Notable achievements include: "),
                           Str(achievements[1]) >>
                        \o (IF Len(achievements) > 1
                            THEN << Lit(", and "), Num(Len(achievements) - 1),
                                    Lit(" more.") >>
                            ELSE <<>>)
                ELSE <<>>
    IN Some(head \o role \o dept \o qual \o expe \o achi)

\* the score counting a repeated keyword once
match_score_of_distinct_keywords(staff, keywords) ==
    Cardinality({ keywords[k] : k \in
        { k \in 1..Len(keywords) :
            \/ In(keywords[k], lower(GetStr(staff, "name")))
            \/ In(keywords[k], lower(GetStr(staff, "current_position")))
            \/ In(keywords[k], lower(GetStr(staff, "role")))
            \/ In(keywords[k], lower(GetStr(staff, "department"))) } })

\* the number of keywords, duplicates counted, found in one of the four
\* lower-cased fields of a staff record
match_score(staff, keywords) ==
    Cardinality({ k \in 1..Len(keywords) :
        \/ In(keywords[k], lower(GetStr(staff, "name")))
        \/ In(keywords[k], lower(GetStr(staff, "current_position")))
        \/ In(keywords[k], lower(GetStr(staff, "role")))
        \/ In(keywords[k], lower(GetStr(staff, "department"))) })

search_staff_info(staff_data, question_analysis) ==
    IF Falsy(staff_data) THEN NoneOpt
    ELSE
    LET staff_list    == staff_data[1]
        target_person == question_analysis.target_person
        keywords      == question_analysis.keywords
        \* the records whose name contains the target person
        named == { i \in 1..Len(staff_list) :
                     In(lower(target_person),
                        lower(GetStr(staff_list[i], "name"))) }
        \* matches, as indices into the staff list
        matches == { i \in 1..Len(staff_list) :
                       match_score(staff_list[i], keywords) > 0 }
        \* matches.sort(key=score, reverse=True)[0]: the sort is stable, so
        \* the first of the records with the highest score
        best == CHOOSE i \in matches :
                    \A j \in matches :
                        \/ match_score(staff_list[j], keywords)
                             < match_score(staff_list[i], keywords)
                        \/ /\ match_score(staff_list[j], keywords)
                                = match_score(staff_list[i], keywords)
                           /\ i <= j
    IN IF target_person # None /\ target_person # <<>> /\ named # {}
       THEN format_staff_response(staff_list[SetMin(named)])
       \* reached also when a target person is set and no name contains it
       ELSE IF matches # {}
       THEN format_staff_response(staff_list[best])
       ELSE NoneOpt

\* ------------------------------------------------------------------------
\* _search_it_department_info
\* ------------------------------------------------------------------------
MapStr(list) == [i \in 1..Len(list) |-> << Str(list[i]) >>]

search_it_department_info(it_dept_data, question_analysis) ==
    IF Falsy(it_dept_data) \/ "department" \notin DOMAIN it_dept_data[1]
    THEN NoneOpt
    ELSE
    LET dept_info == it_dept_data[1]["department"]
        type      == question_analysis.type
        keywords  == question_analysis.keywords
        target_person == question_analysis.target_person
        response ==
          IF type = "department_query"
          THEN << Lit("The "), Fmt(dept_info, "name"), Lit(" is part of the "),
                  Fmt(dept_info, "school"), Lit(" at UENR. ") >>
               \o (IF Truthy(dept_info, "location")
                   THEN << Lit("It is located in "), Str(dept_info["location"]),
                           Lit(". ") >>
                   ELSE <<>>)
               \o (IF Truthy(dept_info, "staff")
                   THEN << Lit("The department has "),
                           Num(Len(dept_info["staff"])), Lit(" staff members. ") >>
                   ELSE <<>>)
          ELSE IF type = "person_query"
                  /\ (InList(s_head, keywords) \/ InList(s_hod, keywords))
          THEN IF Truthy(dept_info, "head_of_department")
               THEN LET hod == dept_info["head_of_department"]
                    IN << Lit("The Head of the "), Fmt(dept_info, "name"),
                          Lit(" is "), Fmt(hod, "name"), Lit(". "),
                          Lit("They serve as "), Fmt(hod, "position"),
                          Lit(" in the "), Fmt(hod, "school"), Lit(".") >>
               ELSE <<>>
          ELSE IF type = "academic_query" /\ InList(s_course, keywords)
          THEN IF Truthy(dept_info, "courses_offered")
               THEN LET courses == dept_info["courses_offered"]
                    IN << Lit("The "), Fmt(dept_info, "name"),
                          Lit(" offers courses including: ") >>
                       \o JoinText(Lit(", "), MapStr(Take(courses, 5)))
                       \o (IF Len(courses) > 5
                           THEN << Lit(", and "), Num(Len(courses) - 5),
                                   Lit(" more courses.") >>
                           ELSE <<>>)
               ELSE <<>>
          ELSE IF type = "academic_query" /\ InList(s_program, keywords)
          THEN IF Truthy(dept_info, "programs")
               THEN LET programs ==
                          [i \in 1..Len(dept_info["programs"]) |->
                             LET program == dept_info["programs"][i]
                             IN << Fmt(program, "degree"), Lit(" in "),
                                   Fmt(program, "name"), Lit(" ("),
                                   Fmt(program, "mode"), Lit(")") >>]
                    IN << Lit("The department offers: ") >>
                       \o JoinText(Lit(", "), programs) \o << Lit(".") >>
               ELSE <<>>
          ELSE IF type = "person_query" /\ Truthy(dept_info, "staff")
          THEN LET staff == dept_info["staff"]
                   named == { i \in 1..Len(staff) :
                                In(lower(target_person),
                                   lower(GetStr(staff[i], "name"))) }
               IN IF target_person # None /\ target_person # <<>> /\ named # {}
                  THEN << Fmt(staff[SetMin(named)], "name"), Lit(" is a "),
                          Fmt(staff[SetMin(named)], "position"), Lit(" in the "),
                          Fmt(dept_info, "name"), Lit(".") >>
                  ELSE <<>>
          ELSE <<>>
    IN Opt(response)

\* ------------------------------------------------------------------------
\* _search_academic_info
\* ------------------------------------------------------------------------
\* dict.get(k, {}) for a section of the guide
Section(d, k) == IF k \in DOMAIN d THEN d[k] ELSE <<>>

search_academic_info(guide_data, question_analysis) ==
    IF Falsy(guide_data) THEN NoneOpt
    ELSE
    LET guide    == guide_data[1]
        q_type   == question_analysis.type
        keywords == question_analysis.keywords
    IN IF q_type = "academic_query" /\ InList(s_program, keywords)
       THEN LET programs == Section(guide, "Programmes_Offered")
                target_dept ==
                    IF question_analysis.target_department # None
                       /\ question_analysis.target_department # <<>>
                    THEN question_analysis.target_department
                    ELSE question_analysis.target_program
                hits == { i \in 1..Len(programs) :
                            In(target_dept, lower(programs[i].key)) }
                response ==
                    IF target_dept # None /\ target_dept # <<>>
                    THEN IF hits = {} THEN <<>>
                         ELSE LET school == programs[SetMin(hits)].key
                                  program_list == programs[SetMin(hits)].value
                              IN << Str(ReplaceUnderscore(school)), Lit(" offers: ") >>
                                 \o JoinText(Lit(", "), MapStr(Take(program_list, 5)))
                                 \o (IF Len(program_list) > 5
                                     THEN << Lit(", and "),
                                             Num(Len(program_list) - 5),
                                             Lit(" more programs.") >>
                                     ELSE <<>>)
                    ELSE << Lit("UENR offers programs through these schools: ") >>
                         \o JoinText(Lit(", "),
                               [i \in 1..Len(programs) |->
                                  << Str(ReplaceUnderscore(programs[i].key)) >>])
                         \o << Lit(".") >>
            IN Opt(response)
       ELSE IF q_type = "grading_query"
       THEN LET grading == Section(guide, "Grading_System")
            IN IF Truthy(grading, "Grades")
               THEN LET grades ==
                          [i \in 1..Len(grading["Grades"]) |->
                             LET grade_info == grading["Grades"][i]
                             IN << Fmt(grade_info, "Grade"), Lit(" ("),
                                   Fmt(grade_info, "Mark"), Lit(") - "),
                                   Fmt(grade_info, "Interpretation") >>]
                    IN Some(<< Lit("UENR uses the following grading system: ") >>
                            \o JoinText(Lit("; "), Take(grades, 3))
                            \o << Lit(".") >>)
               ELSE NoneOpt
       ELSE IF q_type = "registration_query"
       THEN LET registration == Section(guide, "Course_Registration")
            IN IF Truthy(registration, "Steps_to_Register")
               THEN LET steps == registration["Steps_to_Register"]
                    IN Some(<< Lit("To register for courses at UENR: ") >>
                            \o JoinText(Lit(" "), MapStr(Take(steps, 2)))
                            \o << Lit(" For complete details, check the student guide.") >>)
               ELSE NoneOpt
       ELSE IF q_type = "general"
               \/ InList(s_uenr, keywords) \/ InList(s_university, keywords)
       THEN LET about == Section(guide, "About")
            IN Opt((IF Truthy(about, "Overview")
                    THEN << Str(about["Overview"]), Lit(" ") >> ELSE <<>>)
                   \o (IF Truthy(about, "Vision")
                       THEN << Lit("The university's vision is: "),
                               Str(about["Vision"]), Lit(" ") >>
                       ELSE <<>>)
                   \o (IF Truthy(about, "Mission")
                       THEN << Lit("Its mission is: "), Str(about["Mission"]) >>
                       ELSE <<>>))
       ELSE IF InList(s_location, keywords) \/ InList(s_campus, keywords)
       THEN LET location == Section(guide, "Location")
            IN Opt((IF Truthy(location, "Main_Campus")
                    THEN << Lit("UENR's main campus is located in "),
                            Str(location["Main_Campus"]), Lit(". ") >>
                    ELSE <<>>)
                   \o (IF Truthy(location, "Satellite_Campuses")
                       THEN << Lit("It also has satellite campuses in ") >>
                            \o JoinText(Lit(", "),
                                  MapStr(location["Satellite_Campuses"]))
                            \o << Lit(".") >>
                       ELSE <<>>))
       ELSE NoneOpt

\* ------------------------------------------------------------------------
\* _retrieve_info
\* ------------------------------------------------------------------------
\* the truth value of an optional answer text
Found(answer) == answer # NoneOpt /\ answer[1] # <<>>

\* the staff directory consulted before the department profile
consult_staff_first(it_relevant, is_person, it_answer, staff_answer, guide_answer) ==
    LET Hit(answer, source, called) ==
            [ answer |-> answer, source |-> source,
              needs_fallback |-> FALSE, called |-> called ]
        called1 == IF is_person THEN << "STAFF_JSON" >> ELSE <<>>
        called2 == called1 \o (IF it_relevant THEN << "IT_DEPT_JSON" >> ELSE <<>>)
        called3 == Append(called2, "GUIDE_JSON")
    IN IF is_person /\ Found(staff_answer)
       THEN Hit(staff_answer, "STAFF_JSON", called1)
       ELSE IF it_relevant /\ Found(it_answer)
       THEN Hit(it_answer, "IT_DEPT_JSON", called2)
       ELSE IF Found(guide_answer)
       THEN Hit(guide_answer, "GUIDE_JSON", called3)
       ELSE [ answer |-> NoneOpt, source |-> "NONE",
              needs_fallback |-> TRUE, called |-> called3 ]

\* The three strategies in the order of lines 391-411, each one called when
\* its condition holds and no earlier one gave an answer: the result tuple
\* (answer, source, needs_fallback), with the strategies that were called,
\* in call order
consult(it_relevant, is_person, it_answer, staff_answer, guide_answer) ==
    LET Hit(answer, source, called) ==
            [ answer |-> answer, source |-> source,
              needs_fallback |-> FALSE, called |-> called ]
        called1 == IF it_relevant THEN << "IT_DEPT_JSON" >> ELSE <<>>
        called2 == called1 \o (IF is_person THEN << "STAFF_JSON" >> ELSE <<>>)
        called3 == Append(called2, "GUIDE_JSON")
    IN IF it_relevant /\ Found(it_answer)
       THEN Hit(it_answer, "IT_DEPT_JSON", called1)
       ELSE IF is_person /\ Found(staff_answer)
       THEN Hit(staff_answer, "STAFF_JSON", called2)
       ELSE IF Found(guide_answer)
       THEN Hit(guide_answer, "GUIDE_JSON", called3)
       ELSE [ answer |-> NoneOpt, source |-> "NONE",
              needs_fallback |-> TRUE, called |-> called3 ]

\* the result of consult, with the analysis of line 388 it was made from
retrieve_info(data, question) ==
    LET Retrieve(question_analysis) ==
            [ question_analysis |-> question_analysis ] @@
            consult(\/ question_analysis.target_department = s_it
                    \/ question_analysis.target_program = s_information_technology
                    \/ InList(s_it, question_analysis.keywords)
                    \/ In(s_information_technology, lower(question)),
                    question_analysis.type = "person_query",
                    search_it_department_info(data.it_dept_data, question_analysis),
                    search_staff_info(data.staff_data, question_analysis),
                    search_academic_info(data.guide_data, question_analysis))
    IN Retrieve(understand_question(question))

\* ------------------------------------------------------------------------
\* _call_gemini_api
\* ------------------------------------------------------------------------
MIN_RESPONSE_LENGTH == 50
MAX_RESPONSE_LENGTH == 1500

\* n whitespace characters; the characters lo..hi of a reply's body, which
\* holds no whitespace
Blank(n) == [t |-> " ", lo |-> 1, hi |-> n]
Body(lo, hi) == [t |-> "body", lo |-> lo, hi |-> hi]
IsBlank(piece) == piece.t = " "

\* len(text)
RECURSIVE TextLen(_)
TextLen(text) ==
    IF text = <<>> THEN 0
    ELSE (Head(text).hi - Head(text).lo + 1) + TextLen(Tail(text))

\* text.strip()
RECURSIVE LStrip(_)
LStrip(text) ==
    IF text # <<>> /\ IsBlank(Head(text)) THEN LStrip(Tail(text)) ELSE text
RECURSIVE RStrip(_)
RStrip(text) ==
    IF text # <<>> /\ IsBlank(text[Len(text)])
    THEN RStrip(SubSeq(text, 1, Len(text) - 1)) ELSE text
strip(text) == RStrip(LStrip(text))

\* text[:n]
RECURSIVE Prefix(_, _)
Prefix(text, n) ==
    IF text = <<>> \/ n <= 0 THEN <<>>
    ELSE LET piece == Head(text)
             size  == piece.hi - piece.lo + 1
         IN IF size <= n
            THEN << piece >> \o Prefix(Tail(text), n - size)
            ELSE << [piece EXCEPT !.hi = piece.lo + n - 1] >>

\* the parts of all candidates, in the order the two loops visit them
RECURSIVE AllParts(_)
AllParts(candidates) ==
    IF candidates = <<>> THEN <<>>
    ELSE Head(candidates) \o AllParts(Tail(candidates))

\* the first text of a reply, whatever its length
call_gemini_api_any_length(reply) ==
    IF reply.kind # "ok" THEN NoneOpt
    ELSE LET parts == AllParts(reply.candidates)
             accepted == { i \in 1..Len(parts) : parts[i] # <<>> }
         IN IF accepted = {} THEN NoneOpt
            ELSE Some(Prefix(strip(parts[SetMin(accepted)][1]),
                             MAX_RESPONSE_LENGTH))

\* the first text long enough, returned whole
call_gemini_api_uncut(reply) ==
    IF reply.kind # "ok" THEN NoneOpt
    ELSE LET parts == AllParts(reply.candidates)
             accepted == { i \in 1..Len(parts) :
                             /\ parts[i] # <<>>
                             /\ TextLen(strip(parts[i][1])) >= MIN_RESPONSE_LENGTH }
         IN IF accepted = {} THEN NoneOpt
            ELSE Some(strip(parts[SetMin(accepted)][1]))

\* A reply is [kind, candidates]: kind "ok" is a 2xx reply whose body parses
\* to {"candidates": [...]}; every other kind raises inside the try block
\* (the post itself, raise_for_status, json.loads, a body of another shape).
\* A candidate is the list of its content's parts; a part is <<>> when it
\* has no "text" and <<text>> when it has.
call_gemini_api(reply) ==
    IF reply.kind # "ok" THEN NoneOpt
    ELSE LET parts == AllParts(reply.candidates)
             accepted == { i \in 1..Len(parts) :
                             /\ parts[i] # <<>>
                             /\ TextLen(strip(parts[i][1])) >= MIN_RESPONSE_LENGTH }
         IN IF accepted = {} THEN NoneOpt
            ELSE Some(Prefix(strip(parts[SetMin(accepted)][1]),
                             MAX_RESPONSE_LENGTH))

\* ------------------------------------------------------------------------
\* _build_enhanced_prompt
\* ------------------------------------------------------------------------
base_prompt ==
    Lit("You are AskUner, the official AI assistant for the University of Energy and Natural Resources (UENR) in Sunyani, Ghana. Provide accurate, helpful information about UENR. Be conversational but professional. Focus on UENR-specific information and be as detailed as possible.\n\n")
closing_prompt ==
    Lit("Please provide a comprehensive answer about UENR. If the question is specific to a department, program, or person at UENR, focus on that aspect. Include relevant details.")

\* the prompt built without the previous conversation
build_prompt_without_context(question, context) ==
    << base_prompt, Lit("Question: "), Str(question), Lit("\n\n"), closing_prompt >>

build_enhanced_prompt(question, context) ==
    << base_prompt >>
    \o (IF context # <<>>
        THEN << Lit("Context from previous conversation: ") >> \o context
             \o << Lit("\n\n") >>
        ELSE <<>>)
    \o << Lit("Question: "), Str(question), Lit("\n\n"), closing_prompt >>

\* ------------------------------------------------------------------------
\* MessageSerializer, ChatConversation
\* ------------------------------------------------------------------------
MAX_QUESTION_LENGTH == 1000

\* a serializer whose question field has no maximum length
serializer_errors_unbounded(body) ==
    IF body.question = NoneOpt THEN "required"
    ELSE IF body.question[1] = <<>> THEN "blank"
    ELSE ""

\* A request body is [question, session_id], each optional.  The error code
\* of serializer.is_valid() for CharField(max_length=1000), a required and
\* non-blank field; "" when the body is valid
serializer_errors(body) ==
    IF body.question = NoneOpt THEN "required"
    ELSE IF body.question[1] = <<>> THEN "blank"
    ELSE IF Len(body.question[1]) > MAX_QUESTION_LENGTH THEN "max_length"
    ELSE ""

\* str(uuid.uuid4()): the n-th identifier generated, equal to no other
uuid4(n) == "uuid-" \o ToString(n)

\* request.data.get("session_id") or str(uuid.uuid4())
GeneratesSessionId(body) == body.session_id = NoneOpt \/ body.session_id[1] = ""
resolve_session_id(body, n) ==
    IF GeneratesSessionId(body) THEN uuid4(n) ELSE body.session_id[1]

\* ChatConversation.objects.create(...): the row, stamped with its creation
\* time
ChatConversation(session_id, question, answer, source, is_ai_augmented, now) ==
    [ session_id      |-> session_id,
      question        |-> question,
      answer          |-> answer,
      source          |-> source,
      is_ai_augmented |-> is_ai_augmented,
      created_at      |-> now ]

\* the declared choices of ChatConversation.source
SOURCE_CHOICES == {"JSON", "Gemini", "Fallback"}

\* rows.order_by("created_at"), for a set of row indices of the table
RECURSIVE order_by_created_at(_, _)
order_by_created_at(objects, rows) ==
    IF rows = {} THEN <<>>
    ELSE LET first == CHOOSE i \in rows :
                        \A j \in rows :
                            \/ objects[i].created_at < objects[j].created_at
                            \/ /\ objects[i].created_at = objects[j].created_at
                               /\ i <= j
         IN << objects[first] >> \o order_by_created_at(objects, rows \ {first})

\* the rows of every session
history_of_any_session(objects, session_id) ==
    order_by_created_at(objects, 1..Len(objects))

\* ChatConversation.objects.filter(session_id=session_id).order_by("created_at")
history_of(objects, session_id) ==
    order_by_created_at(objects,
        { i \in 1..Len(objects) : objects[i].session_id = session_id })

\* "\n".join([f"User: {m.question}\nBot: {m.answer}" for m in history])
previous_context_of(history) ==
    JoinText(Lit("\n"),
        [i \in 1..Len(history) |->
            << Lit("User: "), Str(history[i].question), Lit("\nBot: ") >>
            \o history[i].answer])

\* ------------------------------------------------------------------------
\* _load_json, _initialize_data
\* ------------------------------------------------------------------------
\* A file is "ok" (readable, valid JSON, the whole document), "partial"
\* (readable, valid JSON, a part of the document), "missing" or "malformed";
\* open() or json.load() raising is caught and gives None
load_json(fs, path) ==
    IF fs[path] = "ok" THEN Some(ParsedFile(path))
    ELSE IF fs[path] = "partial" THEN Some(PartialFile(path))
    ELSE NoneOpt

\* x or [] / x or {}: the empty list and the empty dict are both <<>>
OrEmpty(opt) == IF Falsy(opt) THEN Some(<<>>) ELSE opt

\* the paths _initialize_data reads, given the instance's three attributes
paths_read(data) ==
    { p \in Paths :
        \/ p = STAFF_JSON_PATH /\ data.staff_data = NoneOpt
        \/ p = GUIDE_JSON_PATH /\ data.guide_data = NoneOpt
        \/ p = IT_DEPT_JSON_PATH /\ data.it_dept_data = NoneOpt }

\* _initialize_data where one failed load empties the three documents
initialize_data_failing_together(data, fs) ==
    LET Loaded(path) ==
            IF \E p \in paths_read(data) : load_json(fs, p) = NoneOpt
            THEN Some(<<>>)
            ELSE OrEmpty(load_json(fs, path))
    IN [ staff_data   |-> IF data.staff_data = NoneOpt
                          THEN Loaded(STAFF_JSON_PATH) ELSE data.staff_data,
         guide_data   |-> IF data.guide_data = NoneOpt
                          THEN Loaded(GUIDE_JSON_PATH) ELSE data.guide_data,
         it_dept_data |-> IF data.it_dept_data = NoneOpt
                          THEN Loaded(IT_DEPT_JSON_PATH) ELSE data.it_dept_data ]

initialize_data(data, fs) ==
    [ staff_data   |-> IF data.staff_data = NoneOpt
                       THEN OrEmpty(load_json(fs, STAFF_JSON_PATH))
                       ELSE data.staff_data,
      guide_data   |-> IF data.guide_data = NoneOpt
                       THEN OrEmpty(load_json(fs, GUIDE_JSON_PATH))
                       ELSE data.guide_data,
      it_dept_data |-> IF data.it_dept_data = NoneOpt
                       THEN OrEmpty(load_json(fs, IT_DEPT_JSON_PATH))
                       ELSE data.it_dept_data ]

\* AskUnerAPIView.__init__: as_view() builds one instance per request
new_view == [ staff_data |-> NoneOpt, guide_data |-> NoneOpt, it_dept_data |-> NoneOpt ]

\* ------------------------------------------------------------------------
\* post: the responses
\* ------------------------------------------------------------------------
apology ==
    << Lit("I'm still learning about that specific aspect of UENR. For the most accurate and current information, you might want to check the official UENR website or contact the relevant department directly.") >>
generic_error == "Something went wrong while processing your request."

\* kind "none": no response yet; "response": a Response returned by post;
\* "exception": post raised, no Response of its own was returned
NoResponse ==
    [ kind |-> "none", status |-> 0, errors |-> "", error |-> "",
      session_id |-> "", answer |-> <<>>, source |-> "", is_ai_augmented |-> FALSE ]
BadRequest(errors) ==
    [ NoResponse EXCEPT !.kind = "response", !.status = 400, !.errors = errors ]
Ok(session_id, answer, source, is_ai_augmented) ==
    [ NoResponse EXCEPT !.kind = "response", !.status = 200,
        !.session_id = session_id, !.answer = answer, !.source = source,
        !.is_ai_augmented = is_ai_augmented ]
ServerError ==
    [ NoResponse EXCEPT !.kind = "response", !.status = 500, !.error = generic_error ]
Escaped == [ NoResponse EXCEPT !.kind = "exception" ]

\* the fallback branch marking the apology as augmented too
fallback_outcome_always_augmented(ai_answer) ==
    IF Found(ai_answer)
    THEN [ answer |-> ai_answer, source |-> "Gemini", is_ai_augmented |-> TRUE ]
    ELSE [ answer |-> Some(apology), source |-> "Fallback", is_ai_augmented |-> TRUE ]

\* the outcome of the fallback branch for the value _call_gemini_api returned
fallback_outcome(ai_answer) ==
    IF Found(ai_answer)
    THEN [ answer |-> ai_answer, source |-> "Gemini", is_ai_augmented |-> TRUE ]
    ELSE [ answer |-> Some(apology), source |-> "Fallback", is_ai_augmented |-> FALSE ]

\* ------------------------------------------------------------------------
\* Bounds and inputs of the runs
\* ------------------------------------------------------------------------
\* the number of requests sent to the endpoint
NumRequests == 2
\* the largest candidate list, and the largest parts list of a candidate, of
\* a reply of the external API
MaxCandidates == 2
MaxParts == 1

Reqs == 1..NumRequests

Q_it_department == <<"i","t"," ","d","e","p","a","r","t","m","e","n","t">>
Q_who_is_kofi   == <<"w","h","o"," ","i","s"," ","k","o","f","i"," ","m","e","n","s","a","h">>
Q_what_is_uenr  == <<"w","h","a","t"," ","i","s"," ","u","e","n","r">>
Q_fees          == <<"f","e","e","s">>
Q_cost          == <<"c","o","s","t">>
\* a question of exactly MAX_QUESTION_LENGTH characters, and one longer
Q_longest  == Q_fees \o [i \in 1..(MAX_QUESTION_LENGTH - Len(Q_fees)) |-> "?"]
Q_too_long == Q_longest \o <<"?">>

\* a request body
Request(q, s) == [question |-> q, session_id |-> s]

\* the request bodies sent to the concurrent handlers
Bodies ==
    { Request(q, s) :
        q \in { NoneOpt, Some(Q_what_is_uenr), Some(Q_fees) },
        s \in { NoneOpt, Some("s1") } }

\* the request bodies around the limits of the serializer
LimitBodies ==
    { Request(q, s) :
        q \in { NoneOpt, Some(<<>>), Some(Q_too_long), Some(Q_longest), Some(Q_fees) },
        s \in { NoneOpt, Some(""), Some("s1"), Some("s2") } }

\* questions answered by each of the strategies, or by none
Q_head_of_it    == <<"h","e","a","d"," ","o","f"," ","i","n","f","o","r","m","a","t","i","o","n"," ","t","e","c","h","n","o","l","o","g","y">>
Q_who_teaches   == <<"w","h","o"," ","t","e","a","c","h","e","s"," ","i","n","f","o","r","m","a","t","i","o","n"," ","t","e","c","h","n","o","l","o","g","y">>
Q_it_courses    == <<"i","t"," ","c","o","u","r","s","e","s">>
Q_grading       == <<"g","r","a","d","e","s">>
RetrieveBodies ==
    { Request(Some(q), NoneOpt) :
        q \in { Q_it_department, Q_head_of_it, Q_who_teaches, Q_it_courses,
                Q_who_is_kofi, Q_what_is_uenr, Q_grading, Q_fees } }

\* the request bodies that reach the external call
FallbackBodies == { Request(Some(Q_fees), Some("s1")), Request(Some(Q_cost), NoneOpt) }

\* questions for the classifier: the three examples of the documentation,
\* a question for each of the other rules that also holds a keyword of a
\* later rule, questions that hold no keyword, and questions about persons:
\* with a title and a name, with a title and two letters, with two adjacent
\* words, with a role and no two adjacent words
Q_dean_of_engineering   == <<"W","h","o"," ","i","s"," ","t","h","e"," ","D","e","a","n"," ","o","f"," ","t","h","e"," ","S","c","h","o","o","l"," ","o","f"," ","E","n","g","i","n","e","e","r","i","n","g","?">>
Q_it_department_courses == <<"W","h","a","t"," ","c","o","u","r","s","e","s"," ","d","o","e","s"," ","t","h","e"," ","I","T"," ","d","e","p","a","r","t","m","e","n","t"," ","o","f","f","e","r","?">>
Q_grading_system        == <<"W","h","a","t"," ","i","s"," ","t","h","e"," ","g","r","a","d","i","n","g"," ","s","y","s","t","e","m"," ","a","t"," ","U","E","N","R","?">>
ClassifyQuestions ==
    { Q_dean_of_engineering, Q_it_department_courses, Q_grading_system,
      Q_it_courses, Q_grading, Q_what_is_uenr,
      <<"a","p","p","l","y"," ","f","o","r"," ","a"," ","d","e","g","r","e","e">>,
      <<"a","d","m","i","s","s","i","o","n"," ","f","e","e">>,
      <<"g","p","a"," ","r","e","g","i","s","t","r","a","t","i","o","n">>,
      <<"c","o","s","t"," ","o","f"," ","h","o","s","t","e","l">>,
      <<"r","e","g","i","s","t","e","r"," ","a","t"," ","c","a","m","p","u","s">>,
      <<"l","i","b","r","a","r","y">>,
      <<"D","r","."," ","K","o","f","i"," ","M","e","n","s","a","h">>,
      <<"d","r"," ","a"," ","b">>,
      <<"W","h","o"," ","i","s"," ","t","h","e"," ","h","e","a","d"," ","o","f"," ","I","T","?">>,
      <<"D","e","a","n",","," ","l","e","c","t","u","r","e","r",","," ","l","e","c","t","u","r","e","r">>,
      <<"w","h","o"," ","m","e","n","s","a","h">>,
      <<"u","n","i","v","e","r","s","i","t","y"," ","f","a","c","u","l","t","y"," ","o","f"," ","e","n","g","i","n","e","e","r","i","n","g">> }
ClassifyBodies == { Request(Some(q), NoneOpt) : q \in ClassifyQuestions }

\* questions for every case of the academic guide, most of them holding
\* the keyword of a later case as well
GuideBodies ==
    { Request(Some(q), s) :
        q \in { <<"p","r","o","g","r","a","m"," ","c","a","m","p","u","s">>,
                <<"c","o","m","p","u","t","e","r"," ","s","c","i","e","n","c","e"," ","p","r","o","g","r","a","m"," ","c","a","m","p","u","s">>,
                <<"e","n","g","i","n","e","e","r","i","n","g"," ","p","r","o","g","r","a","m">>,
                <<"g","p","a"," ","c","a","m","p","u","s">>,
                <<"r","e","g","i","s","t","e","r"," ","o","n"," ","c","a","m","p","u","s">>,
                <<"u","e","n","r"," ","c","a","m","p","u","s">>,
                <<"c","a","m","p","u","s"," ","l","o","c","a","t","i","o","n">>,
                <<"c","o","s","t"," ","o","f"," ","c","a","m","p","u","s"," ","h","o","s","t","e","l">>,
                <<"w","h","a","t"," ","i","s"," ","u","e","n","r">>,
                <<"l","i","b","r","a","r","y">> },
        s \in { NoneOpt, Some("s1") } }

\* the states of the three files
AllOk      == [p \in Paths |-> "ok"]
AllMissing == [p \in Paths |-> "missing"]
FileStates == { AllOk, AllMissing }
AnyFileStates == [Paths -> {"ok", "missing", "malformed"}]
GuideFileStates ==
    { [AllOk EXCEPT ![GUIDE_JSON_PATH] = s] : s \in {"ok", "partial", "missing"} }

\* reply texts around the two length limits
Padded(lead, size, trail) ==
    (IF lead > 0 THEN << Blank(lead) >> ELSE <<>>)
    \o (IF size > 0 THEN << Body(1, size) >> ELSE <<>>)
    \o (IF trail > 0 THEN << Blank(trail) >> ELSE <<>>)

Reply(kind, candidates) == [kind |-> kind, candidates |-> candidates]
FailedReplies ==
    { Reply(k, <<>>) : k \in {"transport_error", "http_error", "bad_json", "bad_shape"} }

\* the replies received by the concurrent handlers
Replies ==
    { Reply("http_error", <<>>),
      Reply("ok", << << Some(Padded(1, MIN_RESPONSE_LENGTH - 1, 1)) >> >>),
      Reply("ok", << << Some(Padded(0, MIN_RESPONSE_LENGTH, 0)) >> >>) }

\* the sequences over S of length at most n
SeqsUpTo(S, n) == UNION { [1..k -> S] : k \in 0..n }

\* the parts of the replies: without text, or with a text that is too short
\* once stripped, exactly long enough, or longer than the maximum
Parts ==
    { <<>>,
      Some(Padded(1, MIN_RESPONSE_LENGTH - 1, 1)),
      Some(Padded(2, MIN_RESPONSE_LENGTH, 0)),
      Some(Padded(0, MAX_RESPONSE_LENGTH + 1, 3)) }

\* every reply of at most MaxCandidates candidates of at most MaxParts parts
AnyReplies ==
    FailedReplies \cup
    { Reply("ok", c) : c \in SeqsUpTo(SeqsUpTo(Parts, MaxParts), MaxCandidates) }

\* rows written by earlier requests, all answered by the fixed apology
EarlierRows ==
    << ChatConversation("s1", Q_fees, apology, "Fallback", FALSE, 1),
       ChatConversation("s2", Q_fees, apology, "Fallback", FALSE, 2),
       ChatConversation("s1", Q_cost, apology, "Fallback", FALSE, 3) >>

\* ------------------------------------------------------------------------
\* State
\* ------------------------------------------------------------------------
vars == << files, loads, table, uuids, req >>

\* The handler of a request before post runs.  pc is the position in post;
\* view holds the instance attributes; question .. ai_answer are the locals
\* of post.  The last fields record what the handler did and are never read
\* by it: the body received, the table length at the history query, the
\* number of history queries, the strategies called, the number of
\* retrievals, the descriptor _retrieve_info computed for the question, the
\* number of external calls, the reply received, the number of rows created,
\* the place of the created row in the table, and the step that raised.
Idle ==
    [ pc |-> "idle", view |-> new_view,
      question |-> <<>>, session_id |-> "", previous_context |-> <<>>,
      answer |-> NoneOpt, source |-> "", needs_fallback |-> FALSE,
      is_ai_augmented |-> FALSE, prompt |-> <<>>, ai_answer |-> NoneOpt,
      response |-> NoResponse,
      data |-> Request(NoneOpt, NoneOpt), read_at |-> 0, reads |-> 0, called |-> <<>>, retrievals |-> 0,
      analysis |-> NoneOpt,
      api_calls |-> 0, reply |-> Reply("none", <<>>), created |-> 0,
      logged_at |-> 0, raised |-> "" ]

\* post returns or raises: its frame and the view instance are gone
Return(h, response) ==
    [ h EXCEPT
        !.pc = "done", !.response = response, !.view = Idle.view,
        !.question = Idle.question, !.session_id = Idle.session_id,
        !.previous_context = Idle.previous_context, !.answer = Idle.answer,
        !.source = Idle.source, !.needs_fallback = Idle.needs_fallback,
        !.is_ai_augmented = Idle.is_ai_augmented, !.prompt = Idle.prompt,
        !.ai_answer = Idle.ai_answer ]

\* ------------------------------------------------------------------------
\* post, step by step
\* ------------------------------------------------------------------------
\* lines 435-440: validation and the session id
validated(h, body, n) ==
    IF serializer_errors(body) # ""
    THEN Return([h EXCEPT !.data = body], BadRequest(serializer_errors(body)))
    ELSE [ h EXCEPT !.pc = "history",
                    !.data = body,
                    !.question = body.question[1],
                    !.session_id = resolve_session_id(body, n + 1) ]

\* the history query without the filter on the session
history_read_across_sessions(h, rows) ==
    [ h EXCEPT !.pc = "retrieve",
               !.previous_context =
                   previous_context_of(order_by_created_at(rows, 1..Len(rows))),
               !.read_at = Len(rows),
               !.reads = @ + 1 ]

\* lines 443-444: the history query and the context
history_read(h, rows) ==
    [ h EXCEPT !.pc = "retrieve",
               !.previous_context = previous_context_of(history_of(rows, h.session_id)),
               !.read_at = Len(rows),
               !.reads = @ + 1 ]

\* retrieval followed by the external call whatever it returned
retrieved_then_falls_back(h, fs) ==
    LET Stored(data, result) ==
            [ h EXCEPT !.pc = "fallback",
                       !.view = data,
                       !.answer = result.answer,
                       !.source = result.source,
                       !.needs_fallback = result.needs_fallback,
                       !.is_ai_augmented = FALSE,
                       !.called = @ \o result.called,
                       !.analysis = Some(result.question_analysis),
                       !.retrievals = @ + 1 ]
    IN Stored(initialize_data(h.view, fs),
              retrieve_info(initialize_data(h.view, fs), h.question))

\* lines 448-450 and 468-469: retrieval
retrieved(h, fs) ==
    LET Stored(data, result) ==
            [ h EXCEPT !.pc = IF result.needs_fallback THEN "fallback" ELSE "log",
                       !.view = data,
                       !.answer = result.answer,
                       !.source = result.source,
                       !.needs_fallback = result.needs_fallback,
                       !.is_ai_augmented = FALSE,
                       !.called = @ \o result.called,
                       !.analysis = Some(result.question_analysis),
                       !.retrievals = @ + 1 ]
    IN Stored(initialize_data(h.view, fs),
              retrieve_info(initialize_data(h.view, fs), h.question))

\* lines 451-467: the prompt, the external call and its outcome
fallen_back(h, reply) ==
    LET Stored(ai_answer, outcome) ==
            [ h EXCEPT !.pc = "log",
                       !.prompt = build_enhanced_prompt(h.question, h.previous_context),
                       !.ai_answer = ai_answer,
                       !.answer = outcome.answer,
                       !.source = outcome.source,
                       !.is_ai_augmented = outcome.is_ai_augmented,
                       !.api_calls = @ + 1,
                       !.reply = reply ]
    IN Stored(call_gemini_api(reply), fallback_outcome(call_gemini_api(reply)))

\* the row carrying the session id of the request body as it was sent
row_of_with_sent_session_id(h, rows) ==
    ChatConversation(IF h.data.session_id = NoneOpt THEN "" ELSE h.data.session_id[1],
                     h.question, h.answer[1], h.source,
                     h.is_ai_augmented, Len(rows) + 1)

\* lines 472-478: the row to create
row_of(h, rows) ==
    ChatConversation(h.session_id, h.question, h.answer[1], h.source,
                     h.is_ai_augmented, Len(rows) + 1)

\* the logging step creating no row
logged_nothing(rows, h) == rows

\* the logging step writing over the latest row instead of adding one
logged_replacing_last(rows, h) ==
    IF rows = <<>> THEN Append(rows, row_of(h, rows))
    ELSE [rows EXCEPT ![Len(rows)] = row_of(h, SubSeq(rows, 1, Len(rows) - 1))]

\* ChatConversation.objects.create(...) on the table
logged(rows, h) == Append(rows, row_of(h, rows))

\* lines 480-485
responded(h, rows) ==
    Return([h EXCEPT !.created = @ + 1, !.logged_at = Len(rows)],
           Ok(h.session_id, h.answer[1], h.source, h.is_ai_augmented))

\* lines 487-492: an exception raised inside the try block
caught(h) == Return([h EXCEPT !.raised = h.pc], ServerError)

\* an exception raised outside the try block leaves post
escaped(h) == Return([h EXCEPT !.raised = h.pc], Escaped)

Post_Validate(r, bodies) ==
    /\ req[r].pc = "idle"
    /\ \E body \in bodies :
        /\ req' = [req EXCEPT ![r] = validated(req[r], body, uuids)]
        /\ uuids' = IF serializer_errors(body) = "" /\ GeneratesSessionId(body)
                    THEN uuids + 1 ELSE uuids
    /\ UNCHANGED << files, loads, table >>

Post_History(r) ==
    /\ req[r].pc = "history"
    /\ \/ req' = [req EXCEPT ![r] = history_read(req[r], table)]
       \/ req' = [req EXCEPT ![r] = escaped(req[r])]
    /\ UNCHANGED << files, loads, table, uuids >>

Post_Retrieve(r) ==
    /\ req[r].pc = "retrieve"
    /\ \/ /\ req' = [req EXCEPT ![r] = retrieved(req[r], files)]
          /\ loads' = [p \in Paths |->
                         IF p \in paths_read(req[r].view) THEN loads[p] + 1
                         ELSE loads[p]]
       \/ /\ req' = [req EXCEPT ![r] = caught(req[r])]
          /\ UNCHANGED loads
    /\ UNCHANGED << files, table, uuids >>

\* the external call made with a context read again from the table
Post_Fallback_with_fresh_history(r, replies) ==
    /\ req[r].pc = "fallback"
    /\ \/ \E reply \in replies :
            req' = [req EXCEPT ![r] =
                      fallen_back(
                          [req[r] EXCEPT !.previous_context =
                              previous_context_of(history_of(table, req[r].session_id))],
                          reply)]
       \/ req' = [req EXCEPT ![r] = caught(req[r])]
    /\ UNCHANGED << files, loads, table, uuids >>

Post_Fallback(r, replies) ==
    /\ req[r].pc = "fallback"
    /\ \/ \E reply \in replies :
            req' = [req EXCEPT ![r] = fallen_back(req[r], reply)]
       \/ req' = [req EXCEPT ![r] = caught(req[r])]
    /\ UNCHANGED << files, loads, table, uuids >>

Post_Log(r) ==
    /\ req[r].pc = "log"
    /\ \/ /\ table' = logged(table, req[r])
          /\ req' = [req EXCEPT ![r] = responded(req[r], table')]
       \/ /\ req' = [req EXCEPT ![r] = caught(req[r])]
          /\ UNCHANGED table
    /\ UNCHANGED << files, loads, uuids >>

\* ------------------------------------------------------------------------
\* The endpoint
\* ------------------------------------------------------------------------
\* the steps of the handler of request r
Post(r, bodies, replies) ==
    \/ Post_Validate(r, bodies)
    \/ Post_History(r)
    \/ Post_Retrieve(r)
    \/ Post_Fallback(r, replies)
    \/ Post_Log(r)

Started(fileStates, tables) ==
    /\ files \in fileStates
    /\ loads = [p \in Paths |-> 0]
    /\ table \in tables
    /\ uuids = 0
    /\ req = [r \in Reqs |-> Idle]

\* NumRequests requests, handled concurrently
Init == Started(FileStates, { <<>>, EarlierRows })
Next == \E r \in Reqs : Post(r, Bodies, Replies)
Spec == Init /\ [][Next]_vars

\* one request, with bodies around the limits of the serializer
SpecLimits ==
    /\ Started(FileStates, { <<>>, EarlierRows })
    /\ [][Post(1, LimitBodies, Replies)]_vars

\* one request that reaches the external call, with any reply
SpecGemini ==
    /\ Started({ AllOk }, { <<>>, EarlierRows })
    /\ [][Post(1, FallbackBodies, AnyReplies)]_vars

\* one request, with questions for every strategy and any state of the files
SpecRetrieve ==
    /\ Started(AnyFileStates, { <<>> })
    /\ [][Post(1, RetrieveBodies, Replies)]_vars

\* one request that only the academic guide can answer, with the whole
\* guide, a part of it, or none
SpecGuide ==
    /\ Started(GuideFileStates, { <<>>, EarlierRows })
    /\ [][Post(1, GuideBodies, { Reply("http_error", <<>>) })]_vars

\* a data file is replaced, removed or damaged between two requests
FilesChange(fileStates) ==
    /\ files' \in fileStates \ { files }
    /\ UNCHANGED << loads, table, uuids, req >>

\* NumRequests requests handled one after the other, with questions for
\* every rule of the classifier, while the data files change; every external
\* call fails
SpecClassify ==
    /\ Started(FileStates, { <<>> })
    /\ [][ \/ \E r \in Reqs :
                \/ /\ \A earlier \in 1..(r - 1) : req[earlier].pc = "done"
                   /\ Post_Validate(r, ClassifyBodies)
                \/ Post_History(r)
                \/ Post_Retrieve(r)
                \/ Post_Fallback(r, { Reply("http_error", <<>>) })
                \/ Post_Log(r)
           \/ FilesChange(FileStates) ]_vars

\* ------------------------------------------------------------------------
\* Properties of the endpoint
\* ------------------------------------------------------------------------
\* C1: the step that completes a request with a 200 response appends exactly
\* one Conversation Turn, the request's own, and leaves the earlier turns as
\* they were; the step that ends a request with a validation error, an error
\* response or an exception appends none; no other step changes the log
C1_OneTurnPerCompletedRequest ==
    [][ /\ \A r \in Reqs :
              (req[r].pc # "done" /\ req'[r].pc = "done") =>
                  IF req'[r].response.status = 200
                  THEN /\ Len(table') = Len(table) + 1
                       /\ SubSeq(table', 1, Len(table)) = table
                       /\ table'[Len(table')].session_id = req'[r].response.session_id
                       /\ table'[Len(table')].answer = req'[r].response.answer
                       /\ req'[r].created = 1
                  ELSE table' = table /\ req'[r].created = 0
        /\ (\A r \in Reqs : req'[r].pc = "done" => req[r].pc = "done")
               => table' = table ]_vars

\* one request has completed with a 200 response and one turn, another has
\* ended with the 500 response of an error raised before the logging step
C1_Witness ==
    \E r1, r2 \in Reqs :
        /\ req[r1].response.status = 200 /\ req[r1].created = 1
        /\ req[r2].response.status = 500 /\ req[r2].created = 0
        /\ req[r2].raised \in {"retrieve", "fallback"}
        /\ Len(table) \in {1, Len(EarlierRows) + 1}

\* C2: when the external call fails (transport error, HTTP error status,
\* malformed JSON, a body of another shape, an empty candidate list) or
\* returns only text under the 50-character minimum, the call raises nothing:
\* the handler goes on to the logging step with the fixed apology and the
\* source "Fallback", and the request ends with the 200 response that carries
\* them, unless the log append itself fails
C2_FailedCallGivesApology ==
    \A r \in Reqs :
        LET Holds(h, parts) ==
                (\/ h.reply.kind \in {"transport_error", "http_error",
                                      "bad_json", "bad_shape"}
                 \/ /\ h.reply.kind = "ok"
                    /\ \A i \in 1..Len(parts) :
                          parts[i] = <<>> \/ TextLen(strip(parts[i][1])) < 50)
                => /\ h.raised # "fallback"
                   /\ h.pc \in {"log", "done"}
                   /\ h.pc = "log" =>
                         /\ h.answer = Some(apology)
                         /\ h.source = "Fallback"
                         /\ ~h.is_ai_augmented
                   /\ h.pc = "done" =>
                         \/ /\ h.response.kind = "response"
                            /\ h.response.status = 200
                            /\ h.response.answer = apology
                            /\ h.response.source = "Fallback"
                            /\ ~h.response.is_ai_augmented
                         \/ h.raised = "log" /\ h.response = ServerError
        IN Holds(req[r], AllParts(req[r].reply.candidates))

\* a request whose external call returned only a text under the minimum has
\* ended with the 200 response carrying the apology
C2_Witness ==
    \E r \in Reqs :
        /\ req[r].reply.kind = "ok"
        /\ req[r].reply.candidates # <<>>
        /\ req[r].reply.candidates[1] # <<>>
        /\ req[r].reply.candidates[1][1] # <<>>
        /\ req[r].response.status = 200
        /\ req[r].response.answer = apology
        /\ req[r].response.source = "Fallback"

\* C3: in every 200 response and in every persisted Conversation Turn the
\* source is one of "JSON", "Gemini" and "Fallback", the declared choices of
\* ChatConversation.source
C3_SourceIsDeclaredChoice ==
    /\ \A r \in Reqs :
          req[r].response.status = 200 => req[r].response.source \in SOURCE_CHOICES
    /\ \A i \in 1..Len(table) : table[i].source \in SOURCE_CHOICES

\* C4: a failure at any step after validation ends the request with the 500
\* response {error: "Something went wrong while processing your request."}
\* and no Conversation Turn
C4_EveryFailureGivesGenericError ==
    \A r \in Reqs :
        req[r].raised # "" =>
            /\ req[r].response = ServerError
            /\ req[r].created = 0

\* C5: a request whose question is missing or longer than 1000 characters
\* ends with a 400 response carrying the validation errors, without reading
\* the log, reading a file, calling a strategy, calling the external API or
\* appending a turn; a question of 1 to 1000 characters is not rejected
C5_InvalidQuestionIsRejected ==
    \A r \in Reqs :
        LET Holds(h) ==
                /\ (h.pc # "idle" /\ (\/ h.data.question = NoneOpt
                                      \/ Len(h.data.question[1]) > 1000))
                   => /\ h.pc = "done"
                      /\ h.response.kind = "response"
                      /\ h.response.status = 400
                      /\ h.response.errors \in {"required", "max_length"}
                      /\ h.reads = 0 /\ h.retrievals = 0 /\ h.called = <<>>
                      /\ h.api_calls = 0 /\ h.created = 0
                      /\ \A p \in Paths : loads[p] = 0
                      /\ table \in { <<>>, EarlierRows }
                /\ (h.pc # "idle" /\ h.data.question # NoneOpt
                      /\ Len(h.data.question[1]) \in 1..1000)
                   => h.response.status # 400
        IN Holds(req[r])

\* a question of 1001 characters has been rejected
C5_Witness ==
    \E r \in Reqs :
        /\ req[r].data.question # NoneOpt
        /\ Len(req[r].data.question[1]) = 1001
        /\ req[r].response.status = 400
        /\ req[r].response.errors = "max_length"

\* C6: when a request with session id S has completed with a 200 response
\* before another request with the same S reads its history, and that other
\* request reaches the external fallback, the prompt built for it contains
\* the block "User: <question>\nBot: <answer>" made of the first request's
\* question and answer, verbatim
C6_PromptCarriesEarlierTurn ==
    \A r1, r2 \in Reqs :
        LET Carries(prompt, question, answer) ==
                \E k \in 1..Len(prompt) :
                    /\ k + 2 + Len(answer) <= Len(prompt)
                    /\ prompt[k] = Lit("User: ")
                    /\ prompt[k + 1] = Str(question)
                    /\ prompt[k + 2] = Lit("\nBot: ")
                    /\ SubSeq(prompt, k + 3, k + 2 + Len(answer)) = answer
            Holds(first, later) ==
                (/\ first.response.status = 200
                 /\ later.pc = "log" /\ later.api_calls = 1
                 /\ first.logged_at <= later.read_at
                 /\ first.response.session_id = later.session_id)
                => Carries(later.prompt, first.data.question[1],
                           first.response.answer)
        IN r1 # r2 => Holds(req[r1], req[r2])

\* a request answered from the academic guide has completed, and a later
\* request of the same session has built its fallback prompt
C6_Witness ==
    \E r1, r2 \in Reqs :
        /\ r1 # r2
        /\ req[r1].response.status = 200
        /\ req[r1].response.source = "GUIDE_JSON"
        /\ req[r1].response.session_id = "s1"
        /\ req[r2].pc = "log" /\ req[r2].api_calls = 1
        /\ req[r2].session_id = "s1"
        /\ req[r1].logged_at <= req[r2].read_at

\* the context made of the first n rows of the log that belong to a session,
\* in the order of the log
RECURSIVE ContextOfFirst(_, _, _)
ContextOfFirst(rows, session_id, n) ==
    IF n = 0 THEN <<>>
    ELSE IF rows[n].session_id # session_id
    THEN ContextOfFirst(rows, session_id, n - 1)
    ELSE LET Block(before) ==
                 before \o (IF before = <<>> THEN <<>> ELSE << Lit("\n") >>)
                 \o << Lit("User: "), Str(rows[n].question), Lit("\nBot: ") >>
                 \o rows[n].answer
         IN Block(ContextOfFirst(rows, session_id, n - 1))

\* C7: the context a handler holds after its history query is made of all and
\* only the turns that were in the log at the query and carry the request's
\* session id, in order of creation; the fallback prompt embeds exactly that
\* context after "Context from previous conversation: ", and has no such
\* block when there is no prior turn of the session
C7_ContextIsTheSessionsTurns ==
    \A r \in Reqs :
        LET Holds(h, expected) ==
                /\ h.pc \in {"retrieve", "fallback", "log"}
                   => h.previous_context = expected
                /\ (h.pc = "log" /\ h.api_calls = 1)
                   => IF expected = <<>>
                      THEN \A k \in 1..Len(h.prompt) :
                              h.prompt[k] # Lit("Context from previous conversation: ")
                      ELSE /\ h.prompt[2] = Lit("Context from previous conversation: ")
                           /\ SubSeq(h.prompt, 3, 2 + Len(expected)) = expected
                           /\ h.prompt[3 + Len(expected)] = Lit("\n\n")
                           /\ h.prompt[4 + Len(expected)] = Lit("Question: ")
        IN Holds(req[r], ContextOfFirst(table, req[r].session_id, req[r].read_at))

\* a handler has built its fallback prompt from a log that held, at its
\* history query, turns of its session and a turn of another session
C7_Witness ==
    \E r \in Reqs :
        /\ req[r].pc = "log" /\ req[r].api_calls = 1
        /\ req[r].session_id = "s1"
        /\ req[r].read_at = Len(EarlierRows) + 1
        /\ \A i \in 1..req[r].read_at : table[i].session_id \in {"s1", "s2"}
        /\ table[req[r].read_at].session_id = "s1"
        /\ table[2].session_id = "s2"

\* C8: the strategies a retrieval has called appear in the order department
\* profile, staff directory, academic guide; every strategy called before the
\* last one returned no answer, so nothing is called after the first answer;
\* an answer carries the tag of the strategy that returned it, and without
\* any answer the academic guide was the last one called
C8_StrategiesInFixedOrder ==
    \A r \in Reqs :
        LET Rank(tag) ==
                CASE tag = "IT_DEPT_JSON" -> 1
                  [] tag = "STAFF_JSON" -> 2
                  [] tag = "GUIDE_JSON" -> 3
            Holds(h, question_analysis) ==
                LET Returned(tag) ==
                        CASE tag = "IT_DEPT_JSON" ->
                                search_it_department_info(h.view.it_dept_data,
                                                          question_analysis)
                          [] tag = "STAFF_JSON" ->
                                search_staff_info(h.view.staff_data,
                                                  question_analysis)
                          [] tag = "GUIDE_JSON" ->
                                search_academic_info(h.view.guide_data,
                                                     question_analysis)
                IN /\ h.called # <<>>
                   /\ \A i \in 1..Len(h.called) :
                         h.called[i] \in {"IT_DEPT_JSON", "STAFF_JSON", "GUIDE_JSON"}
                   /\ \A i, j \in 1..Len(h.called) :
                         i < j => Rank(h.called[i]) < Rank(h.called[j])
                   /\ \A i \in 1..(Len(h.called) - 1) : ~Found(Returned(h.called[i]))
                   /\ IF Found(Returned(h.called[Len(h.called)]))
                      THEN /\ h.source = h.called[Len(h.called)]
                           /\ h.answer = Returned(h.called[Len(h.called)])
                           /\ ~h.needs_fallback
                           /\ h.pc = "log"
                      ELSE /\ h.called[Len(h.called)] = "GUIDE_JSON"
                           /\ h.answer = NoneOpt
                           /\ h.needs_fallback
                           /\ h.pc = "fallback"
        IN (req[r].pc \in {"fallback", "log"} /\ req[r].api_calls = 0)
           => Holds(req[r], understand_question(req[r].question))

\* a retrieval answered by the staff directory after the department profile
\* gave nothing, the academic guide not being called
C8_Witness ==
    \E r \in Reqs :
        /\ req[r].pc = "log" /\ req[r].api_calls = 0
        /\ req[r].called = << "IT_DEPT_JSON", "STAFF_JSON" >>
        /\ req[r].source = "STAFF_JSON"
        /\ Found(req[r].answer)

\* C9: a handler calls the external API at most once, and only after a
\* retrieval in which the last strategy, the academic guide, gave no answer;
\* a handler whose retrieval gave an answer goes to the logging step without
\* any call, and a 200 response tagged by a strategy was made without a call
C9_OneCallOnlyWithoutAnswer ==
    \A r \in Reqs :
        LET Holds(h) ==
                /\ h.api_calls <= 1
                /\ h.retrievals <= 1
                /\ h.api_calls = 1
                   => /\ h.retrievals = 1
                      /\ h.called # <<>>
                      /\ h.called[Len(h.called)] = "GUIDE_JSON"
                /\ h.pc = "fallback"
                   => h.needs_fallback /\ h.answer = NoneOpt /\ h.api_calls = 0
                /\ h.pc = "log"
                   => /\ h.api_calls = 1 <=> h.needs_fallback
                      /\ h.source \in {"IT_DEPT_JSON", "STAFF_JSON", "GUIDE_JSON"}
                         <=> h.api_calls = 0
                /\ (h.pc = "done" /\ h.response.status = 200)
                   => IF h.response.source \in {"IT_DEPT_JSON", "STAFF_JSON", "GUIDE_JSON"}
                      THEN h.api_calls = 0
                      ELSE /\ h.api_calls = 1
                           /\ h.response.source \in {"Gemini", "Fallback"}
        IN Holds(req[r])

\* one request was answered by a strategy without any call, another one made
\* its single call after a failed reply and was answered by the apology
C9_Witness ==
    \E r1, r2 \in Reqs :
        /\ req[r1].response.status = 200
        /\ req[r1].response.source = "GUIDE_JSON"
        /\ req[r1].api_calls = 0
        /\ req[r2].response.status = 200
        /\ req[r2].response.source = "Fallback"
        /\ req[r2].reply.kind = "http_error"
        /\ req[r2].api_calls = 1

\* C10: what the external call gives the handler is either no answer or a
\* text of at least 50 and at most 1500 characters: no answer for a reply
\* without candidates and for one none of whose texts has 50 characters once
\* trimmed, and otherwise the first 1500 characters at most of the first
\* trimmed text that has 50
C10_AnswerLengthWithinLimits ==
    \A r \in Reqs :
        LET Trimmed(part) ==
                IF part = <<>> THEN <<>>
                ELSE SelectSeq(part[1], LAMBDA piece : ~IsBlank(piece))
            Size(part) ==
                IF Trimmed(part) = <<>> THEN 0
                ELSE Trimmed(part)[1].hi - Trimmed(part)[1].lo + 1
            Holds(h, parts) ==
                LET long == { i \in 1..Len(parts) : Size(parts[i]) >= 50 }
                IN /\ h.ai_answer = NoneOpt
                      \/ (TextLen(h.ai_answer[1]) >= 50 /\ TextLen(h.ai_answer[1]) <= 1500)
                   /\ (h.reply.kind # "ok" \/ h.reply.candidates = <<>>)
                      => h.ai_answer = NoneOpt
                   /\ long = {} => h.ai_answer = NoneOpt
                   /\ (h.reply.kind = "ok" /\ long # {})
                      => \E i \in long :
                            /\ \A j \in long : i <= j
                            /\ h.ai_answer =
                                 Some(<< Body(1, IF Size(parts[i]) > 1500 THEN 1500
                                                 ELSE Size(parts[i])) >>)
        IN (req[r].pc = "log" /\ req[r].api_calls = 1)
           => Holds(req[r], AllParts(req[r].reply.candidates))

\* a reply whose first text is too short and whose second one has 1501
\* characters was cut to 1500
C10_Witness ==
    \E r \in Reqs :
        /\ req[r].pc = "log" /\ req[r].api_calls = 1
        /\ req[r].reply.kind = "ok"
        /\ Len(req[r].reply.candidates) = 2
        /\ req[r].reply.candidates[1] = << Some(Padded(1, 49, 1)) >>
        /\ req[r].reply.candidates[2] = << Some(Padded(0, 1501, 3)) >>
        /\ req[r].ai_answer # NoneOpt
        /\ TextLen(req[r].ai_answer[1]) = 1500

\* C11: in every 200 response and in every row of the log, is_ai_augmented
\* is true exactly when the source is "Gemini"; it is false for an answer
\* tagged by a strategy and for the fixed apology
C11_AugmentedOnlyByGemini ==
    /\ \A r \in Reqs :
          req[r].response.status = 200 =>
              /\ req[r].response.is_ai_augmented <=> req[r].response.source = "Gemini"
              /\ req[r].response.answer = apology => ~req[r].response.is_ai_augmented
    /\ \A i \in 1..Len(table) :
          table[i].is_ai_augmented <=> table[i].source = "Gemini"

\* the log holds a row of each kind: tagged by a strategy, written from an
\* accepted external text, and written with the apology
C11_Witness ==
    /\ \E i \in 1..Len(table) :
          table[i].source = "GUIDE_JSON" /\ ~table[i].is_ai_augmented
    /\ \E i \in 1..Len(table) :
          table[i].source = "Gemini" /\ table[i].is_ai_augmented
    /\ \E i \in 1..Len(table) :
          table[i].source = "Fallback" /\ ~table[i].is_ai_augmented
    /\ \E r \in Reqs :
          req[r].response.status = 200 /\ req[r].response.source = "Gemini"

C13_FirstMatchingRuleWins ==
    \A r \in Reqs :
        LET rules ==
                << [type |-> "person_query",       words |-> person_keywords],
                   [type |-> "department_query",   words |-> department_words],
                   [type |-> "academic_query",     words |-> academic_words],
                   [type |-> "admission_query",    words |-> admission_words],
                   [type |-> "grading_query",      words |-> grading_words],
                   [type |-> "financial_query",    words |-> financial_words],
                   [type |-> "registration_query", words |-> registration_words],
                   [type |-> "facility_query",     words |-> facility_words] >>
            Holds(analysis, matching) ==
                /\ analysis.type =
                      IF matching = {} THEN "general"
                      ELSE rules[CHOOSE k \in matching : \A j \in matching : k <= j].type
                /\ analysis.target_person # None => analysis.type = "person_query"
                /\ analysis.target_department # None
                      => analysis.type = "department_query"
                /\ analysis.target_program # None
                      => analysis.type = "academic_query"
        IN req[r].analysis # NoneOpt =>
              Holds(req[r].analysis[1],
                    { k \in 1..Len(rules) :
                        AnyIn(rules[k].words, lower(req[r].data.question[1])) })

\* a question holding "who", "dean" and "school" was classified as a person
\* query without a target department, and one holding "department" and
\* "courses" as a department query without a target program
C13_Witness ==
    \E r1, r2 \in Reqs :
        /\ req[r1].data.question = Some(Q_dean_of_engineering)
        /\ req[r1].analysis # NoneOpt
        /\ req[r1].analysis[1].type = "person_query"
        /\ req[r1].analysis[1].target_department = None
        /\ req[r2].data.question = Some(Q_it_department_courses)
        /\ req[r2].analysis # NoneOpt
        /\ req[r2].analysis[1].type = "department_query"
        /\ req[r2].analysis[1].target_department = s_it
        /\ req[r2].analysis[1].target_program = None

\* C14: the question "Who is the Dean of the School of Engineering?" is
\* classified with the type person_query and the target person "Dean"
C14_DeanQuestionTargetsDean ==
    \A r \in Reqs :
        (req[r].data.question = Some(Q_dean_of_engineering)
         /\ req[r].analysis # NoneOpt)
        => /\ req[r].analysis[1].type = "person_query"
           /\ req[r].analysis[1].target_person = role_dean

\* C15: for a question holding "IT department" and "courses", with the
\* department profile loaded and listing courses, the retrieval ends with a
\* non-empty answer tagged IT_DEPT_JSON that names the first 5 courses at
\* most, in the profile's order, and no other course, followed by the count
\* of the remaining courses when the profile lists more than 5
C15_CoursesOfItDepartmentListed ==
    \A r \in Reqs :
        LET Holds(h, courses) ==
                LET shown == IF Len(courses) < 5 THEN Len(courses) ELSE 5
                    named == SelectSeq(h.answer[1],
                                 LAMBDA piece :
                                     \E i \in 1..Len(courses) : piece = Str(courses[i]))
                IN /\ h.pc = "log"
                   /\ h.source = "IT_DEPT_JSON"
                   /\ Found(h.answer)
                   /\ named = [i \in 1..shown |-> Str(courses[i])]
                   /\ Len(courses) > 5 =>
                         \E k \in 1..(Len(h.answer[1]) - 1) :
                             /\ h.answer[1][k] = Num(Len(courses) - 5)
                             /\ h.answer[1][k + 1] = Lit(" more courses.")
        IN (/\ req[r].data.question = Some(Q_it_department_courses)
            /\ req[r].retrievals = 1
            /\ req[r].api_calls = 0
            /\ req[r].pc \in {"fallback", "log"}
            /\ req[r].view.it_dept_data = Some(ItDeptDocument))
           => Holds(req[r], ItDeptDocument["department"]["courses_offered"])

\* C16: for the question "What is the grading system at UENR?", with the
\* guide loaded and holding at least 3 grade bands, the retrieval ends with
\* an answer tagged GUIDE_JSON that holds the first 3 grade bands as
\* "<Grade> (<Mark>) - <Interpretation>", joined by "; " in the guide's
\* order, and no later band
C16_GradingQuestionListsThreeBands ==
    \A r \in Reqs :
        LET Band(grade_info) ==
                << Str(grade_info["Grade"]), Lit(" ("), Str(grade_info["Mark"]),
                   Lit(") - "), Str(grade_info["Interpretation"]) >>
            Holds(h, grades) ==
                LET expected ==
                        Band(grades[1]) \o << Lit("; ") >> \o Band(grades[2])
                        \o << Lit("; ") >> \o Band(grades[3])
                IN /\ h.pc = "log"
                   /\ h.source = "GUIDE_JSON"
                   /\ Found(h.answer)
                   /\ \E k \in 0..(Len(h.answer[1]) - Len(expected)) :
                         SubSeq(h.answer[1], k + 1, k + Len(expected)) = expected
                   /\ \A i \in 4..Len(grades) :
                         \A k \in 1..Len(h.answer[1]) :
                             h.answer[1][k] # Str(grades[i]["Interpretation"])
        IN (/\ req[r].data.question = Some(Q_grading_system)
            /\ req[r].retrievals = 1
            /\ req[r].api_calls = 0
            /\ req[r].pc \in {"fallback", "log"}
            /\ req[r].view.guide_data = Some(GuideDocument))
           => Holds(req[r], GuideDocument["Grading_System"]["Grades"])

\* C17: over the requests one process handles, each of the three knowledge
\* documents is read from its file at most once: the first use loads it and
\* no later request reads it again
C17_DocumentsReadAtMostOnce ==
    \A p \in Paths : loads[p] <= 1

\* C18: a knowledge document whose file is missing or is not valid JSON
\* becomes the empty container, while each other document is the content of
\* its own file; the strategy of an empty document gives no answer; and when
\* the three files fail, the retrieval finds nothing, the request goes to
\* the external call, and an answered request has the source "Gemini" or
\* "Fallback"
C18_FailedLoadEmptiesThatDocumentOnly ==
    \A r \in Reqs :
        LET Document(path) ==
                IF files[path] = "ok" THEN Some(ParsedFile(path)) ELSE Some(<<>>)
            AfterRetrieval(h) ==
                /\ h.view.staff_data = Document(STAFF_JSON_PATH)
                /\ h.view.guide_data = Document(GUIDE_JSON_PATH)
                /\ h.view.it_dept_data = Document(IT_DEPT_JSON_PATH)
                /\ files[STAFF_JSON_PATH] # "ok" => h.source # "STAFF_JSON"
                /\ files[GUIDE_JSON_PATH] # "ok" => h.source # "GUIDE_JSON"
                /\ files[IT_DEPT_JSON_PATH] # "ok" => h.source # "IT_DEPT_JSON"
                /\ (\A p \in Paths : files[p] # "ok")
                   => /\ h.answer = NoneOpt \/ h.api_calls = 1
                      /\ h.needs_fallback
                      /\ h.pc = "fallback" \/ h.api_calls = 1
            Answered(h) ==
                (\A p \in Paths : files[p] # "ok")
                => /\ h.api_calls = 1
                   /\ h.response.source \in {"Gemini", "Fallback"}
        IN /\ (req[r].retrievals = 1 /\ req[r].pc \in {"fallback", "log"})
              => AfterRetrieval(req[r])
           /\ (req[r].pc = "done" /\ req[r].response.status = 200)
              => Answered(req[r])

C18_Witness ==
    \E r \in Reqs :
        /\ files[STAFF_JSON_PATH] = "missing"
        /\ files[GUIDE_JSON_PATH] = "malformed"
        /\ files[IT_DEPT_JSON_PATH] = "ok"
        /\ req[r].pc = "fallback"
        /\ req[r].called = << "STAFF_JSON", "GUIDE_JSON" >>
        /\ req[r].view.staff_data = Some(<<>>)
        /\ req[r].view.guide_data = Some(<<>>)
        /\ req[r].view.it_dept_data = Some(ItDeptDocument)

\* C19: no step of any request changes or removes a row the conversation log
\* already holds: the table only grows at its end, and so does the sequence
\* of turns of every session
C19_LogIsAppendOnly ==
    [][ /\ Len(table') >= Len(table)
        /\ SubSeq(table', 1, Len(table)) = table
        /\ \A i \in 1..Len(table') :
              LET Grows(before, after) ==
                      /\ Len(after) >= Len(before)
                      /\ SubSeq(after, 1, Len(before)) = before
              IN Grows(history_of(table, table'[i].session_id),
                       history_of(table', table'[i].session_id)) ]_vars

C19_Witness ==
    \E r1, r2 \in Reqs :
        /\ req[r1].pc = "done" /\ req[r1].response.status = 200
        /\ req[r2].pc = "done" /\ req[r2].response.status # 200
        /\ Len(table) = Len(EarlierRows) + 1
        /\ SubSeq(table, 1, Len(EarlierRows)) = EarlierRows
        /\ table[Len(table)].session_id = EarlierRows[1].session_id

\* C20: a request that passes validation and meets no unexpected error gets
\* a 200 response with a non-empty answer, its session id, a source and the
\* augmentation flag; and every request ends in exactly one of three
\* responses: the 200 answer, the 400 validation error, the 500 generic error
C20_ExactlyOneOfThreeOutcomes ==
    \A r \in Reqs :
        LET Answer(response) ==
                /\ response.status = 200
                /\ response.answer # <<>>
                /\ response.session_id # ""
                /\ response.source # ""
                /\ response.is_ai_augmented \in BOOLEAN
            ValidationError(response) ==
                response.status = 400 /\ response.errors # ""
            GenericError(response) ==
                response.status = 500 /\ response.error = generic_error
            Ends(h) ==
                /\ h.response.kind = "response"
                /\ \/ Answer(h.response)
                   \/ ValidationError(h.response)
                   \/ GenericError(h.response)
                /\ ~ (Answer(h.response) /\ ValidationError(h.response))
                /\ ~ (Answer(h.response) /\ GenericError(h.response))
                /\ ~ (ValidationError(h.response) /\ GenericError(h.response))
                /\ (serializer_errors(h.data) = "" /\ h.raised = "")
                   => Answer(h.response)
        IN req[r].pc = "done" => Ends(req[r])

\* C21: a request whose session id no other request carries goes, whatever
\* the interleaving of the steps of the requests, through the same context,
\* retrieval result and prompt, and ends with the same response and the same
\* persisted turn, as when it runs alone on the log the process started
\* with; and the turns of both requests are in the log
C21_OtherSessionsDoNotInterfere ==
    \A r1 \in Reqs :
        LET Sid(h) == IF h.pc = "done" THEN h.response.session_id ELSE h.session_id
            Locals ==
                { "pc", "question", "session_id", "previous_context", "answer",
                  "source", "needs_fallback", "is_ai_augmented", "prompt",
                  "ai_answer" }
            Turn == { "session_id", "question", "answer", "source", "is_ai_augmented" }
            Same(h, alone) == \A f \in Locals : h[f] = alone[f]
            Called(alone, reply) ==
                IF alone.pc = "fallback" THEN fallen_back(alone, reply) ELSE alone
            Alone(h, initial) ==
                LET read == history_read(
                                [validated(Idle, h.data, 0) EXCEPT !.session_id = Sid(h)],
                                initial)
                    Ends(before, last) ==
                        /\ h.pc = "retrieve" => Same(h, before)
                        /\ h.pc = "fallback" => Same(h, retrieved(before, files))
                        /\ h.pc = "log" => Same(h, last)
                        /\ (h.pc = "done" /\ h.response.status = 200)
                           => /\ h.response = responded(last, initial).response
                              /\ h.logged_at \in 1..Len(table)
                              /\ \A f \in Turn :
                                    table[h.logged_at][f] = row_of(last, initial)[f]
                IN Ends(read, Called(retrieved(read, files), h.reply))
            Appended == Cardinality({ q \in Reqs : req[q].created > 0 })
            Holds(h, others) ==
                /\ Alone(h, SubSeq(table, 1, Len(table) - Appended))
                /\ \A q \in others :
                      (h.response.status = 200 /\ req[q].response.status = 200)
                      => h.logged_at # req[q].logged_at
        IN (/\ Sid(req[r1]) # ""
            /\ \A r2 \in Reqs \ { r1 } : Sid(req[r1]) # Sid(req[r2]))
           => Holds(req[r1], Reqs \ { r1 })

\* two requests of different sessions have completed, the second having read
\* its history and called the external service after the first was logged,
\* on a log that held earlier turns of the session of the second
C21_Witness ==
    \E r1, r2 \in Reqs :
        /\ req[r1].pc = "done" /\ req[r1].response.status = 200
        /\ req[r2].pc = "done" /\ req[r2].response.status = 200
        /\ req[r1].response.session_id = uuid4(1)
        /\ req[r2].response.session_id = "s1"
        /\ req[r2].api_calls = 1
        /\ req[r1].logged_at <= req[r2].read_at
        /\ Len(table) = Len(EarlierRows) + 2

\* C22: for a person_query the two name patterns are tried in order and the
\* first pattern that matches anywhere in the question wins: target_person
\* is the title-cased first match of the title pattern when it matches, and
\* of the capitalised-words pattern only when the title pattern does not
C22_FirstNamePatternWins ==
    \A r \in Reqs :
        LET Name(match) == title(Join(<<" ">>, match))
            Holds(analysis, by_title, by_capitals) ==
                analysis.type = "person_query"
                => /\ by_title # <<>> => analysis.target_person = Name(by_title)
                   /\ (by_title = <<>> /\ by_capitals # <<>>)
                      => analysis.target_person = Name(by_capitals)
        IN req[r].analysis # NoneOpt
           => Holds(req[r].analysis[1],
                    TitlePatternFirst(req[r].data.question[1]),
                    CapitalPatternFirst(req[r].data.question[1]))

\* C23: the department profile is the first strategy consulted whenever the
\* descriptor has target_department "it" or target_program "information
\* technology", or the question holds the word "it" or the words
\* "information technology"; so a person_query asking for the head of IT
\* consults it
C23_ItWordConsultsDepartmentProfile ==
    \A r \in Reqs :
        LET HasWordIt(s) ==
                \E i \in 1..(Len(s) - 1) :
                    /\ SubSeq(s, i, i + 1) = s_it
                    /\ i = 1 \/ ~IsWordChar(s[i - 1])
                    /\ i + 2 > Len(s) \/ ~IsWordChar(s[i + 2])
            Relevant(analysis, q_lower) ==
                \/ analysis.target_department = s_it
                \/ analysis.target_program = s_information_technology
                \/ InList(s_it, analysis.keywords)
                \/ InList(s_information_technology, analysis.keywords)
                \/ HasWordIt(q_lower)
                \/ In(s_information_technology, q_lower)
            Holds(h) ==
                Relevant(h.analysis[1], lower(h.data.question[1]))
                => (h.called # <<>> /\ h.called[1] = "IT_DEPT_JSON")
        IN (req[r].retrievals = 1 /\ req[r].analysis # NoneOpt) => Holds(req[r])

\* C24: in the staff directory strategy a set target_person is answered
\* from the first record, in file order, whose name contains it without
\* regard to case, and the keyword scoring runs only when target_person is
\* not set: a set target_person that no name contains gets no answer from
\* the staff directory
C24_UnmatchedTargetPersonGetsNoStaffAnswer ==
    \A r \in Reqs :
        LET Named(staff_list, target_person) ==
                { i \in 1..Len(staff_list) :
                    In(lower(target_person), lower(GetStr(staff_list[i], "name"))) }
            Holds(h, staff_list, target_person) ==
                (target_person # None /\ target_person # <<>>)
                => IF Named(staff_list, target_person) = {}
                   THEN h.source # "STAFF_JSON"
                   ELSE /\ h.source = "STAFF_JSON"
                        /\ h.answer = format_staff_response(
                               staff_list[SetMin(Named(staff_list, target_person))])
        IN (/\ req[r].retrievals = 1
            /\ req[r].api_calls = 0
            /\ req[r].pc \in {"fallback", "log"}
            /\ req[r].called # <<>>
            /\ req[r].called[1] = "STAFF_JSON"
            /\ ~Falsy(req[r].view.staff_data))
           => Holds(req[r], req[r].view.staff_data[1],
                    req[r].analysis[1].target_person)

\* C25: when the staff directory scores by keywords, the score of a record
\* is the number of keyword occurrences, repeated keywords counted each
\* time, that are substrings of its name, current_position, role or
\* department; records with score 0 are left out; the answer is built from
\* the record with the highest score, the first in file order among equals,
\* and there is no staff answer when every score is 0
C25_HighestScoreFirstInFileOrderWins ==
    \A r \in Reqs :
        LET Fields == { "name", "current_position", "role", "department" }
            Score(staff, keywords) ==
                Len(SelectSeq(keywords,
                        LAMBDA keyword :
                            \E f \in Fields : In(keyword, lower(GetStr(staff, f)))))
            Named(staff_list, target_person) ==
                { i \in 1..Len(staff_list) :
                    In(lower(target_person), lower(GetStr(staff_list[i], "name"))) }
            Best(staff_list, keywords) ==
                { i \in 1..Len(staff_list) :
                    /\ Score(staff_list[i], keywords) > 0
                    /\ \A j \in 1..Len(staff_list) :
                          Score(staff_list[j], keywords) <= Score(staff_list[i], keywords) }
            Holds(h, staff_list, keywords) ==
                IF Best(staff_list, keywords) = {}
                THEN h.source # "STAFF_JSON"
                ELSE /\ h.source = "STAFF_JSON"
                     /\ h.answer = format_staff_response(
                            staff_list[SetMin(Best(staff_list, keywords))])
        IN (/\ req[r].retrievals = 1
            /\ req[r].api_calls = 0
            /\ req[r].pc \in {"fallback", "log"}
            /\ req[r].called # <<>>
            /\ req[r].called[1] = "STAFF_JSON"
            /\ ~Falsy(req[r].view.staff_data)
            /\ Named(req[r].view.staff_data[1],
                     req[r].analysis[1].target_person) = {})
           => Holds(req[r], req[r].view.staff_data[1], req[r].analysis[1].keywords)

\* the question "Dean, lecturer, lecturer" has been answered from the second
\* record of the directory, which holds "lecturer" twice counted against
\* "dean" once in the first record
C25_Witness ==
    \E r \in Reqs :
        /\ req[r].pc = "log"
        /\ req[r].analysis # NoneOpt
        /\ req[r].analysis[1].keywords
             = << s_dean, <<"l","e","c","t","u","r","e","r">>,
                  <<"l","e","c","t","u","r","e","r">> >>
        /\ req[r].source = "STAFF_JSON"
        /\ req[r].answer = format_staff_response(StaffDocument[2])

\* C26: the academic guide answers by the first case that matches, in the
\* order: academic_query with the keyword "program", grading_query,
\* registration_query, type general or keyword "uenr" or "university",
\* keyword "location" or "campus"; no case gives no answer; a case that
\* matches and whose section the guide does not hold gives no answer and no
\* later case is tried, so the location answer is given only to a type
\* other than general with the keyword "location" or "campus" and neither
\* "uenr" nor "university"
C26_GuideAnswersByFirstMatchingCase ==
    \A r \in Reqs :
        LET Case(q_type, keywords) ==
                IF q_type = "academic_query" /\ InList(s_program, keywords) THEN 1
                ELSE IF q_type = "grading_query" THEN 2
                ELSE IF q_type = "registration_query" THEN 3
                ELSE IF q_type = "general" \/ InList(s_uenr, keywords)
                        \/ InList(s_university, keywords) THEN 4
                ELSE IF InList(s_location, keywords) \/ InList(s_campus, keywords) THEN 5
                ELSE 0
            SectionOf ==
                << "Programmes_Offered", "Grading_System", "Course_Registration",
                   "About", "Location" >>
            Leads(guide) ==
                << { Lit("UENR offers programs through these schools: ") }
                   \cup { Str(ReplaceUnderscore(guide["Programmes_Offered"][i].key)) :
                            i \in 1..Len(Section(guide, "Programmes_Offered")) },
                   { Lit("UENR uses the following grading system: ") },
                   { Lit("To register for courses at UENR: ") },
                   { Lit("The university's vision is: "), Lit("Its mission is: ") }
                   \cup { Str(Section(guide, "About")[k]) :
                            k \in DOMAIN Section(guide, "About") \cap {"Overview"} },
                   { Lit("UENR's main campus is located in "),
                     Lit("It also has satellite campuses in ") } >>
            Holds(h, guide, case) ==
                /\ case = 0 => h.source # "GUIDE_JSON"
                /\ (case > 0 /\ SectionOf[case] \notin DOMAIN guide)
                   => h.source # "GUIDE_JSON"
                /\ h.source = "GUIDE_JSON"
                   => (case > 0 /\ h.answer[1][1] \in Leads(guide)[case])
                /\ (h.source = "GUIDE_JSON"
                    /\ h.answer[1][1] = Lit("UENR's main campus is located in "))
                   => /\ h.analysis[1].type # "general"
                      /\ InList(s_location, h.analysis[1].keywords)
                         \/ InList(s_campus, h.analysis[1].keywords)
                      /\ ~InList(s_uenr, h.analysis[1].keywords)
                      /\ ~InList(s_university, h.analysis[1].keywords)
        IN (/\ req[r].retrievals = 1
            /\ req[r].api_calls = 0
            /\ req[r].pc \in {"fallback", "log"}
            /\ req[r].called = << "GUIDE_JSON" >>
            /\ ~Falsy(req[r].view.guide_data))
           => Holds(req[r], req[r].view.guide_data[1],
                    Case(req[r].analysis[1].type, req[r].analysis[1].keywords))

\* C27: the turn appended by a request answered with 200 carries the
\* session_id, answer, source and is_ai_augmented of the response and the
\* question of the request; when the request carries no session id, or an
\* empty one, one id is generated, and that one id is used for the history
\* query, the turn and the response; a session id that was sent is used as
\* it is
C27_TurnCarriesWhatTheResponseReturns ==
    \A r \in Reqs :
        LET Generated(h) == GeneratesSessionId(h.data)
            InFlight(h) ==
                /\ Generated(h) => \E n \in 1..uuids : h.session_id = uuid4(n)
                /\ ~Generated(h) => h.session_id = h.data.session_id[1]
                /\ h.pc \in {"retrieve", "fallback", "log"}
                   => h.previous_context
                        = ContextOfFirst(table, h.session_id, h.read_at)
            Answered(h, row) ==
                /\ h.created = 1
                /\ row.session_id = h.response.session_id
                /\ row.question = h.data.question[1]
                /\ row.answer = h.response.answer
                /\ row.source = h.response.source
                /\ row.is_ai_augmented = h.response.is_ai_augmented
                /\ Generated(h) => \E n \in 1..uuids : h.response.session_id = uuid4(n)
                /\ ~Generated(h) => h.response.session_id = h.data.session_id[1]
        IN /\ uuids = Cardinality({ q \in Reqs :
                          /\ req[q].pc # "idle"
                          /\ serializer_errors(req[q].data) = ""
                          /\ GeneratesSessionId(req[q].data) })
           /\ req[r].pc \in {"history", "retrieve", "fallback", "log"}
              => InFlight(req[r])
           /\ (req[r].pc = "done" /\ req[r].response.status = 200)
              => /\ req[r].logged_at \in 1..Len(table)
                 /\ Answered(req[r], table[req[r].logged_at])

\* a request sent with an empty session id has been answered on a log that
\* held earlier turns, and its turn and its response carry the generated id
C27_Witness ==
    \E r \in Reqs :
        /\ req[r].pc = "done" /\ req[r].response.status = 200
        /\ req[r].data.session_id = Some("")
        /\ req[r].response.session_id = uuid4(1)
        /\ Len(table) = Len(EarlierRows) + 1
        /\ table[Len(table)].session_id = uuid4(1)
        /\ table[Len(table)].answer = req[r].response.answer

\* C28: the context of a request is fixed by one history query, made before
\* the classification and before the external call: the context the handler
\* holds, and the prompt it builds, are made of the turns its session had at
\* that query, so a turn another request of the same session appends later
\* is not in the prompt; and two answered requests of one session have each
\* their own turn in the log
C28_ContextFixedByOneEarlyRead ==
    \A r1, r2 \in Reqs :
        LET Blocks(text) ==
                Cardinality({ k \in 1..Len(text) : text[k] = Lit("User: ") })
            TurnsAt(session_id, n) ==
                Cardinality({ i \in 1..n : table[i].session_id = session_id })
            Fixed(h) ==
                /\ h.pc \in {"retrieve", "fallback", "log"}
                   => /\ h.reads = 1
                      /\ h.read_at <= Len(table)
                      /\ h.previous_context
                           = ContextOfFirst(table, h.session_id, h.read_at)
                /\ h.pc = "retrieve" => (h.retrievals = 0 /\ h.api_calls = 0)
                /\ h.retrievals + h.api_calls > 0 => h.reads = 1
                /\ (h.pc = "log" /\ h.api_calls = 1)
                   => /\ h.prompt = build_enhanced_prompt(h.question,
                              ContextOfFirst(table, h.session_id, h.read_at))
                      /\ Blocks(h.prompt) = TurnsAt(h.session_id, h.read_at)
            Kept(h, other) ==
                (/\ h.response.status = 200 /\ other.response.status = 200
                 /\ h.response.session_id = other.response.session_id)
                => /\ h.logged_at # other.logged_at
                   /\ { h.logged_at, other.logged_at } \subseteq 1..Len(table)
                   /\ table[h.logged_at].question = h.data.question[1]
                   /\ table[h.logged_at].session_id = h.response.session_id
                   /\ table[h.logged_at].answer = h.response.answer
                   /\ h.logged_at > h.read_at
        IN /\ Fixed(req[r1])
           /\ r1 # r2 => Kept(req[r1], req[r2])

\* a request has built its prompt after another request of the same session,
\* which read the history later or earlier, appended its turn: the log holds
\* one more turn of the session than the prompt
C28_Witness ==
    \E r1, r2 \in Reqs :
        /\ r1 # r2
        /\ req[r1].pc = "log" /\ req[r1].api_calls = 1
        /\ req[r1].session_id = "s1"
        /\ req[r2].pc = "done" /\ req[r2].response.status = 200
        /\ req[r2].response.session_id = "s1"
        /\ req[r2].logged_at > req[r1].read_at
        /\ req[r1].read_at = Len(EarlierRows)
        /\ Cardinality({ k \in 1..Len(req[r1].prompt) :
                           req[r1].prompt[k] = Lit("User: ") }) = 2

\* C29: for a person_query a role label ("Vice-Chancellor", "Head of
\* Department", "Dean") is the target person only when neither name pattern
\* matches, letters of either case taken alike; whenever the question holds
\* two runs of 2 letters or more separated by whitespace only, the target
\* person is the title-cased match of a name pattern and no role label
C29_RoleOnlyWithoutTwoAdjacentWords ==
    \A r \in Reqs :
        LET Roles == { role_vice_chancellor, role_head_of_department, role_dean }
            HasTwoWords(s) ==
                \E a \in 2..Len(s) : \E b \in (a + 1)..(Len(s) - 2) :
                    /\ IsAlpha(s[a - 1]) /\ IsAlpha(s[a])
                    /\ \A k \in (a + 1)..b : IsSpace(s[k])
                    /\ IsAlpha(s[b + 1]) /\ IsAlpha(s[b + 2])
            Names(by_title, by_capitals) ==
                { title(Join(<<" ">>, match)) :
                    match \in { by_title, by_capitals } \ { <<>> } }
            Holds(target_person, s, by_title, by_capitals) ==
                /\ target_person \in Roles
                   => /\ by_title = <<>> /\ by_capitals = <<>>
                      /\ target_person = InferRole(lower(s))
                /\ HasTwoWords(s)
                   => /\ target_person \notin Roles \cup { None, <<>> }
                      /\ target_person \in Names(by_title, by_capitals)
                      /\ title(target_person) = target_person
                      /\ \E k \in 1..Len(target_person) : target_person[k] = " "
                /\ (by_title = <<>> /\ by_capitals = <<>>)
                   => target_person = InferRole(lower(s))
        IN (req[r].analysis # NoneOpt /\ req[r].analysis[1].type = "person_query")
           => Holds(req[r].analysis[1].target_person, req[r].data.question[1],
                    TitlePatternFirst(req[r].data.question[1]),
                    CapitalPatternFirst(req[r].data.question[1]))

\* the question about the Dean of the School of Engineering has been
\* classified: "Who is" gave the target person, "Dean" did not
C29_Witness ==
    \E r \in Reqs :
        /\ req[r].data.question = Some(Q_dean_of_engineering)
        /\ req[r].analysis # NoneOpt
        /\ req[r].analysis[1].type = "person_query"
        /\ req[r].analysis[1].target_person = <<"W","h","o"," ","I","s">>

\* C30: for a question that holds no person keyword, holds "department",
\* "school" or "faculty", and whose lower-cased text holds the letters "it"
\* anywhere, also inside a word, the type is department_query and the target
\* department is "it", even when "computer science" or "engineering" occurs
\* too; with the department profile loaded the request is answered with the
\* summary of the IT department, tagged IT_DEPT_JSON
C30_LettersItSelectItDepartment ==
    \A r \in Reqs :
        LET Applies(q_lower) ==
                /\ ~AnyIn(person_keywords, q_lower)
                /\ AnyIn(department_words, q_lower)
                /\ In(s_it, q_lower)
            Summary(dept_info) ==
                << Lit("The "), Fmt(dept_info, "name"), Lit(" is part of the "),
                   Fmt(dept_info, "school"), Lit(" at UENR. ") >>
            Answered(h, dept_info) ==
                /\ h.pc = "log"
                /\ h.called = << "IT_DEPT_JSON" >>
                /\ h.source = "IT_DEPT_JSON"
                /\ Found(h.answer)
                /\ SubSeq(h.answer[1], 1, 5) = Summary(dept_info)
            Holds(h) ==
                /\ h.analysis[1].type = "department_query"
                /\ h.analysis[1].target_department = s_it
                /\ (/\ h.pc \in {"fallback", "log"} /\ h.api_calls = 0
                    /\ ~Falsy(h.view.it_dept_data)
                    /\ "department" \in DOMAIN h.view.it_dept_data[1])
                   => Answered(h, h.view.it_dept_data[1]["department"])
        IN (/\ req[r].analysis # NoneOpt
            /\ Applies(lower(req[r].data.question[1])))
           => Holds(req[r])

\* "university faculty of engineering" has been answered with the summary of
\* the IT department
C30_Witness ==
    \E r \in Reqs :
        /\ req[r].data.question
             = Some(<<"u","n","i","v","e","r","s","i","t","y"," ","f","a","c","u","l","t","y"," ","o","f"," ","e","n","g","i","n","e","e","r","i","n","g">>)
        /\ req[r].pc = "log"
        /\ req[r].analysis[1].target_department = s_it
        /\ req[r].source = "IT_DEPT_JSON"
        /\ req[r].answer[1][2] = Str(ItDeptDocument["department"]["name"])

====
